---- MODULE Spec2Model ----
(***************************************************************************)
(* Budget normalisation and standardisation pipeline of owen-for-maine     *)
(* (b_App/data_processing.py, b_App/data_ingestion.py, main.py).           *)
(*                                                                         *)
(* A pandas DataFrame with the two-level row index (Department, Funding    *)
(* Source) and one column per year is a sequence of rows                   *)
(*   [Department, FundingSource, vals],  vals \in [YearSet -> Cell];       *)
(* the sequence keeps pandas' row order and may hold duplicate keys.       *)
(* A float64 cell is an exact rational, NaN, or +/- infinity.              *)
(***************************************************************************)
EXTENDS Integers, Sequences, FiniteSets, TLC

(***************************************************************************)
(* float64 cells                                                           *)
(***************************************************************************)
NaN == [k |-> "nan", n |-> 0, d |-> 1]
PosInf == [k |-> "inf", n |-> 1, d |-> 0]
NegInf == [k |-> "inf", n |-> -1, d |-> 0]

Abs(i) == IF i < 0 THEN -i ELSE i

RECURSIVE Gcd(_, _)
Gcd(a, b) == IF b = 0 THEN a ELSE Gcd(b, a % b)

\* the rational p/q (q # 0) in lowest terms with a positive denominator
Frac(p, q) ==
    LET g == Gcd(Abs(p), Abs(q))
        s == IF q < 0 THEN -1 ELSE 1
    IN  [k |-> "num", n |-> (s * p) \div g, d |-> (s * q) \div g]

Num(i) == [k |-> "num", n |-> i, d |-> 1]

IsNaN(x) == x.k = "nan"
IsNum(x) == x.k = "num"
IsInf(x) == x.k = "inf"

\* x + y and x - y on finite cells, x * y for a finite y; NaN propagates
Add(x, y) ==
    IF IsNaN(x) \/ IsNaN(y) THEN NaN
    ELSE Frac(x.n * y.d + y.n * x.d, x.d * y.d)

Sub(x, y) ==
    IF IsNaN(x) \/ IsNaN(y) THEN NaN
    ELSE Frac(x.n * y.d - y.n * x.d, x.d * y.d)

Mul(x, y) ==
    IF IsNaN(x) \/ IsNaN(y) THEN NaN
    ELSE IF IsInf(x)
         THEN IF y.n = 0 THEN NaN ELSE IF y.n > 0 THEN x ELSE [x EXCEPT !.n = -x.n]
         ELSE Frac(x.n * y.n, x.d * y.d)

\* numpy float division: x/0 is +inf, -inf or (0/0) NaN
Div(x, y) ==
    IF IsNaN(x) \/ IsNaN(y) THEN NaN
    ELSE IF y.n = 0
         THEN IF x.n = 0 THEN NaN ELSE IF x.n > 0 THEN PosInf ELSE NegInf
         ELSE Frac(x.n * y.d, x.d * y.n)

\* numpy round(0) of a finite cell: to the nearest integer, halves to the
\* even one (a negative zero counts as zero)
Round0(x) ==
    IF ~IsNum(x) THEN x
    ELSE LET q == x.n \div x.d
             r == x.n % x.d
         IN  IF 2 * r < x.d THEN Num(q)
             ELSE IF 2 * r > x.d THEN Num(q + 1)
             ELSE IF q % 2 = 0 THEN Num(q) ELSE Num(q + 1)

\* x < y on finite cells
Less(x, y) == x.n * y.d < y.n * x.d

\* DataFrame.fillna(0) on one cell
Fillna0(x) == IF IsNaN(x) THEN Num(0) ELSE x

\* sum of a sequence of cells the way pandas' sum() does it (skipna=True,
\* min_count=0): NaN cells are skipped and an all-NaN sum is 0
RECURSIVE SumSkipNa(_)
SumSkipNa(cells) ==
    IF cells = <<>> THEN Num(0)
    ELSE Add(Fillna0(Head(cells)), SumSkipNa(Tail(cells)))

(***************************************************************************)
(* Labels and their lexicographic order (sort_index, groupby and outer     *)
(* joins sort row keys)                                                    *)
(***************************************************************************)
GRAND_TOTALS == "GRAND TOTALS - ALL DEPARTMENTS"
TOTAL == "TOTAL"
DEPARTMENT_TOTAL == "DEPARTMENT TOTAL"
EX_FEDERAL == "DEPARTMENT TOTAL ex FEDERAL"
FEDERAL == "FEDERAL EXPENDITURES FUND"
GENERAL_FUND == "GENERAL FUND"
OTHER_FUND == "OTHER SPECIAL REVENUE FUNDS"

Years == <<"2018", "2025">>
YearSet == {Years[i] : i \in 1..Len(Years)}

\* every department label of the model, in string order
DeptOrder == <<"A", "B", "C", GRAND_TOTALS, TOTAL, "X", "Y", "Z">>
\* every funding-source label of the model, in string order
FSOrder == <<DEPARTMENT_TOTAL, EX_FEDERAL, FEDERAL, GENERAL_FUND, OTHER_FUND>>

Rank(order, label) == CHOOSE i \in 1..Len(order) : order[i] = label

KeySeq ==
    [i \in 1..(Len(DeptOrder) * Len(FSOrder)) |->
        <<DeptOrder[((i - 1) \div Len(FSOrder)) + 1],
          FSOrder[((i - 1) % Len(FSOrder)) + 1]>>]

Row(dept, fs, v) == [Department |-> dept, FundingSource |-> fs, vals |-> v]
KeyOf(r) == <<r.Department, r.FundingSource>>
KeysOf(df) == {KeyOf(df[i]) : i \in 1..Len(df)}
DeptsOf(df) == {df[i].Department : i \in 1..Len(df)}
FundsOf(df) == {df[i].FundingSource : i \in 1..Len(df)}
UniqueKeys(df) == \A i, j \in 1..Len(df) : KeyOf(df[i]) = KeyOf(df[j]) => i = j

NaNVals == [y \in YearSet |-> NaN]

\* the cell of (dept, fs, year), NaN when the table has no such row
\* (for tables with unique keys)
Cell(df, dept, fs, y) ==
    IF <<dept, fs>> \in KeysOf(df)
    THEN (CHOOSE r \in {df[i] : i \in 1..Len(df)} : KeyOf(r) = <<dept, fs>>).vals[y]
    ELSE NaN

\* column sum of a table, NaN skipped
ColSum(df, y) == SumSkipNa([i \in 1..Len(df) |-> df[i].vals[y]])

RECURSIVE ConcatAll(_)
ConcatAll(ss) == IF ss = <<>> THEN <<>> ELSE Head(ss) \o ConcatAll(Tail(ss))

\* DataFrame.sort_index(): stable lexicographic sort of the rows by key
sort_index(df) ==
    ConcatAll([i \in 1..Len(KeySeq) |-> SelectSeq(df, LAMBDA r : KeyOf(r) = KeySeq[i])])

\* df.groupby(['Department', 'Funding Source']).sum(): one row per key, in
\* key order, NaN counted as 0
groupby_key_sum(df) ==
    LET present == SelectSeq(KeySeq, LAMBDA key : key \in KeysOf(df))
    IN  [i \in 1..Len(present) |->
            Row(present[i][1], present[i][2],
                [y \in YearSet |->
                    ColSum(SelectSeq(df, LAMBDA r : KeyOf(r) = present[i]), y)])]

\* the outcome of a call: a table, or the exception it raised
Ok(df) == [err |-> "", df |-> df]
Raise(e) == [err |-> e, df |-> <<>>]
None == [err |-> "None", df |-> <<>>]

(***************************************************************************)
(* Total Reconciler: data_processing.py, process_me_budget                 *)
(***************************************************************************)
\* df.drop(index=label, level='Department'): KeyError when no row carries
\* the label
drop_department(df, label) ==
    IF label \notin DeptsOf(df) THEN Raise("KeyError")
    ELSE Ok(SelectSeq(df, LAMBDA r : r.Department # label))

\* df.xs(fs, level='Funding Source'): the rows of one funding source, the
\* level dropped; KeyError when no row carries the label
xs(df, fs) ==
    IF fs \notin FundsOf(df) THEN Raise("KeyError")
    ELSE Ok(SelectSeq(df, LAMBDA r : r.FundingSource = fs))

\* df.groupby(level='Funding Source').sum() with Department set to 'TOTAL'
funding_source_totals(no_total_df) ==
    LET funds == SelectSeq(FSOrder, LAMBDA f : f \in FundsOf(no_total_df))
    IN  [i \in 1..Len(funds) |->
            Row(TOTAL, funds[i],
                [y \in YearSet |->
                    ColSum(SelectSeq(no_total_df,
                                     LAMBDA r : r.FundingSource = funds[i]), y)])]

clean_total_rows_keeps_grand_total(as_reported_df) ==
    LET dropped == drop_department(as_reported_df, GRAND_TOTALS)
    IN  IF dropped.err # "" THEN dropped
        ELSE Ok(sort_index(dropped.df \o funding_source_totals(as_reported_df)))

clean_total_rows(as_reported_df) ==
    LET dropped == drop_department(as_reported_df, GRAND_TOTALS)
        no_total_df == dropped.df
        total_df == funding_source_totals(no_total_df)
    IN  IF dropped.err # "" THEN dropped
        ELSE Ok(sort_index(no_total_df \o total_df))

\* the subtraction done with fill_value=0 on both sides
ex_federal_rows_fill_value_zero(total_df, federal_df) ==
    LET depts == SelectSeq(DeptOrder,
                           LAMBDA dp : dp \in DeptsOf(total_df) \cup DeptsOf(federal_df))
    IN  [i \in 1..Len(depts) |->
            Row(depts[i], EX_FEDERAL,
                [y \in YearSet |->
                    LET t == Cell(total_df, depts[i], DEPARTMENT_TOTAL, y)
                        f == Cell(federal_df, depts[i], FEDERAL, y)
                    IN  IF IsNaN(t) /\ IsNaN(f) THEN NaN
                        ELSE Sub(Fillna0(t), Fillna0(f))])]

\* (total_df - federal_df).fillna(total_df) on the department index: the
\* rows are aligned on the union of the two department sets
ex_federal_rows(total_df, federal_df) ==
    LET depts == SelectSeq(DeptOrder,
                           LAMBDA dp : dp \in DeptsOf(total_df) \cup DeptsOf(federal_df))
    IN  [i \in 1..Len(depts) |->
            Row(depts[i], EX_FEDERAL,
                [y \in YearSet |->
                    LET t == Cell(total_df, depts[i], DEPARTMENT_TOTAL, y)
                        f == Cell(federal_df, depts[i], FEDERAL, y)
                        diff == Sub(t, f)
                    IN  IF IsNaN(diff) THEN t ELSE diff])]

add_department_total_ex_federal(df) ==
    LET federal_df == xs(df, FEDERAL)
        total_df == xs(df, DEPARTMENT_TOTAL)
    IN  IF federal_df.err # "" THEN federal_df
        ELSE IF total_df.err # "" THEN total_df
        ELSE Ok(sort_index(df \o ex_federal_rows(total_df.df, federal_df.df)))

process_me_budget(me_budget_as_reported_df) ==
    LET me_budget_clean_totals_df == clean_total_rows(me_budget_as_reported_df)
    IN  IF me_budget_clean_totals_df.err # "" THEN me_budget_clean_totals_df
        ELSE add_department_total_ex_federal(me_budget_clean_totals_df.df)

(***************************************************************************)
(* Department/Category Mapper, Double-Count Resolver and Standardizer      *)
(***************************************************************************)
MAINE == "Maine"
NEW_HAMPSHIRE == "New Hampshire"

\* str.upper() on the Standardized column (the labels of the model that are
\* not upper case already)
Upper(name) == IF name = "x" THEN "X" ELSE IF name = "y" THEN "Y" ELSE name

\* a row of department_mapping.csv and of the sub-department mapping file
DirectRule(state, as_reported, standardized) ==
    [State |-> state, AsReported |-> as_reported, Standardized |-> standardized]
SubRule(state, as_reported, fs, standardized) ==
    [State |-> state, AsReported |-> as_reported, FundingSource |-> fs,
     Standardized |-> standardized]

\* data_ingestion.load_department_mapping: the Standardized column upper-cased
load_department_mapping(csv_rows) ==
    [i \in 1..Len(csv_rows) |->
        [csv_rows[i] EXCEPT !.Standardized = Upper(csv_rows[i].Standardized)]]

\* mapping_df[mapping_df['State'] == full_state_name]
state_rules(mapping_df, full_state_name) ==
    SelectSeq(mapping_df, LAMBDA rule : rule.State = full_state_name)

\* the sub-department rules that an as-reported row matches in an inner
\* merge on (Department, Funding Source) = (As Reported, Funding Source)
sub_matches(r, state_mapping_df) ==
    SelectSeq(state_mapping_df,
              LAMBDA rule : /\ rule.AsReported = r.Department
                            /\ rule.FundingSource = r.FundingSource)

\* the sub-department path keeping the funding source of the matched row
standardize_budget_from_sub_departments_keeps_funding_source(as_reported_df, sub_category_map_df, full_state_name) ==
    LET state_mapping_df == state_rules(sub_category_map_df, full_state_name)
        merged ==
            ConcatAll([i \in 1..Len(as_reported_df) |->
                LET m == sub_matches(as_reported_df[i], state_mapping_df)
                IN  [j \in 1..Len(m) |->
                        Row(Upper(m[j].Standardized), as_reported_df[i].FundingSource,
                            as_reported_df[i].vals)]])
    IN  groupby_key_sum(merged)

standardize_budget_from_sub_departments(as_reported_df, sub_category_map_df, full_state_name) ==
    LET state_mapping_df == state_rules(sub_category_map_df, full_state_name)
        merged ==
            ConcatAll([i \in 1..Len(as_reported_df) |->
                LET m == sub_matches(as_reported_df[i], state_mapping_df)
                IN  [j \in 1..Len(m) |->
                        Row(Upper(m[j].Standardized), DEPARTMENT_TOTAL,
                            as_reported_df[i].vals)]])
    IN  groupby_key_sum(merged)

\* the as-reported rows matched by a sub-department rule, one copy per
\* matching rule (inner merge keeps the order of the left table)
as_reported_df_used(as_reported_df, sub_category_map_df, full_state_name) ==
    LET state_mapping_df == state_rules(sub_category_map_df, full_state_name)
    IN  ConcatAll([i \in 1..Len(as_reported_df) |->
            LET m == sub_matches(as_reported_df[i], state_mapping_df)
            IN  [j \in 1..Len(m) |-> as_reported_df[i]]])

\* the rules of every jurisdiction taken for the rules of this one
identify_double_counted_departments_any_state(as_reported_df, sub_category_map_df, full_state_name) ==
    LET used == ConcatAll([i \in 1..Len(as_reported_df) |->
                    LET m == sub_matches(as_reported_df[i], sub_category_map_df)
                    IN  [j \in 1..Len(m) |-> as_reported_df[i]]])
        depts == SelectSeq(DeptOrder, LAMBDA dp : dp \in DeptsOf(used))
        totals_already_mapped ==
            [i \in 1..Len(depts) |->
                Row(depts[i], DEPARTMENT_TOTAL,
                    [y \in YearSet |->
                        ColSum(SelectSeq(used, LAMBDA r : r.Department = depts[i]), y)])]
    IN  totals_already_mapped \o used

identify_double_counted_departments(as_reported_df, sub_category_map_df, full_state_name) ==
    LET used == as_reported_df_used(as_reported_df, sub_category_map_df, full_state_name)
        depts == SelectSeq(DeptOrder, LAMBDA dp : dp \in DeptsOf(used))
        totals_already_mapped ==
            [i \in 1..Len(depts) |->
                Row(depts[i], DEPARTMENT_TOTAL,
                    [y \in YearSet |->
                        ColSum(SelectSeq(used, LAMBDA r : r.Department = depts[i]), y)])]
    IN  totals_already_mapped \o used

\* one cell of DataFrame.subtract(other, fill_value=0): a cell missing on
\* one side only counts as 0, a cell missing on both sides stays NaN
sub_fill0(x, y) ==
    IF IsNaN(x) /\ IsNaN(y) THEN NaN ELSE Sub(Fillna0(x), Fillna0(y))

\* left.subtract(right, fill_value=0): the rows are aligned on the outer
\* join of the two indexes, in key order; a key that right holds n times
\* yields n rows
subtract_fill0(left, right) ==
    LET keys == SelectSeq(KeySeq, LAMBDA key : key \in KeysOf(left) \cup KeysOf(right))
        rows_of(key) ==
            LET l == SelectSeq(left, LAMBDA r : KeyOf(r) = key)
                r == SelectSeq(right, LAMBDA q : KeyOf(q) = key)
                lv(a) == IF l = <<>> THEN NaNVals ELSE l[a].vals
                rv(b) == IF r = <<>> THEN NaNVals ELSE r[b].vals
                nl == IF l = <<>> THEN 1 ELSE Len(l)
                nr == IF r = <<>> THEN 1 ELSE Len(r)
            IN  [i \in 1..(nl * nr) |->
                    Row(key[1], key[2],
                        [y \in YearSet |->
                            sub_fill0(lv(((i - 1) \div nr) + 1)[y],
                                      rv(((i - 1) % nr) + 1)[y])])]
    IN  ConcatAll([i \in 1..Len(keys) |-> rows_of(keys[i])])

remaining_funds_not_subtracted(as_reported_df, totals_already_mapped) ==
    as_reported_df

\* data_processing.py:101
remaining_funds(as_reported_df, totals_already_mapped) ==
    subtract_fill0(as_reported_df, totals_already_mapped)

\* the direct rules that a row matches in the left merge on Department
direct_matches(r, state_mapping_df) ==
    SelectSeq(state_mapping_df, LAMBDA rule : rule.AsReported = r.Department)

RECURSIVE Unique(_)
\* Series.unique(): the distinct values in order of first appearance
Unique(seq) ==
    IF seq = <<>> THEN <<>>
    ELSE <<Head(seq)>> \o Unique(SelectSeq(Tail(seq), LAMBDA v : v # Head(seq)))

\* the lines printed at data_processing.py:64-67
unmapped_report(as_reported_df, category_mapping_df, full_state_name) ==
    LET state_mapping_df == state_rules(category_mapping_df, full_state_name)
        isna == SelectSeq(as_reported_df,
                          LAMBDA r : direct_matches(r, state_mapping_df) = <<>>)
        unmapped_depts == Unique([i \in 1..Len(isna) |-> isna[i].Department])
    IN  IF isna = <<>> THEN <<>>
        ELSE <<[line |-> "Unmapped departments:", text |-> full_state_name]>>
             \o [i \in 1..Len(unmapped_depts) |->
                    [line |-> "dept", text |-> unmapped_depts[i]]]

\* the rows with no Standardized name fall out of the groupby (dropna)
standardize_budget_from_direct_mapping(as_reported_df, category_mapping_df, full_state_name) ==
    LET state_mapping_df == state_rules(category_mapping_df, full_state_name)
        merged ==
            ConcatAll([i \in 1..Len(as_reported_df) |->
                LET m == direct_matches(as_reported_df[i], state_mapping_df)
                IN  [j \in 1..Len(m) |->
                        Row(Upper(m[j].Standardized), as_reported_df[i].FundingSource,
                            as_reported_df[i].vals)]])
    IN  groupby_key_sum(merged)

standardize_budget(as_reported_df, category_mapping_df, sub_category_map_df, full_state_name) ==
    LET from_sub == standardize_budget_from_sub_departments(
                        as_reported_df, sub_category_map_df, full_state_name)
        already == identify_double_counted_departments(
                        as_reported_df, sub_category_map_df, full_state_name)
        remaining == remaining_funds(as_reported_df, already)
        from_direct == standardize_budget_from_direct_mapping(
                        remaining, category_mapping_df, full_state_name)
    IN  groupby_key_sum(from_direct \o from_sub)

\* what one call of standardize_budget prints
standardize_budget_stdout(as_reported_df, category_mapping_df, sub_category_map_df, full_state_name) ==
    unmapped_report(
        remaining_funds(as_reported_df,
                        identify_double_counted_departments(
                            as_reported_df, sub_category_map_df, full_state_name)),
        category_mapping_df, full_state_name)

(***************************************************************************)
(* Cross-Jurisdiction Comparator                                           *)
(***************************************************************************)
\* a_Configs/config.py: Config.DEPARTMENT_SCALE
DEPARTMENT_SCALE == 1000000

\* the year columns of a table
Columns(df) == IF df = <<>> THEN {} ELSE DOMAIN df[1].vals

\* a missing year column read as a column of missing values
department_totals_missing_year_as_nan(df, year) ==
    LET totals == xs(df, DEPARTMENT_TOTAL)
    IN  IF totals.err # "" THEN totals
        ELSE Ok([i \in 1..Len(totals.df) |->
                    [Department |-> totals.df[i].Department,
                     value |-> IF year \in DOMAIN totals.df[i].vals
                               THEN totals.df[i].vals[year] ELSE NaN]])

\* df.xs('DEPARTMENT TOTAL', level='Funding Source')[year]: KeyError when
\* no row carries the funding source or the table has no such year column
department_totals(df, year) ==
    LET totals == xs(df, DEPARTMENT_TOTAL)
    IN  IF totals.err # "" THEN totals
        ELSE IF year \notin Columns(totals.df) THEN Raise("KeyError")
        ELSE Ok([i \in 1..Len(totals.df) |->
                    [Department |-> totals.df[i].Department,
                     value |-> totals.df[i].vals[year]]])

\* the value of a department in a Series, NaN when the index lacks it
At(series, dept) ==
    IF \E i \in 1..Len(series) : series[i].Department = dept
    THEN series[CHOOSE i \in 1..Len(series) : series[i].Department = dept].value
    ELSE NaN

IndexOf(series) == {series[i].Department : i \in 1..Len(series)}

\* the union of two department indexes in sorted order (outer join of the
\* Series of a dict-built DataFrame or of a binary operation)
union_sorted(a, b) == SelectSeq(DeptOrder, LAMBDA dp : dp \in a \cup b)

create_state_comparison_without_fillna(year, me_standardized_df, nh_standardized_df) ==
    LET me_totals == department_totals(me_standardized_df, year)
        nh_totals == department_totals(nh_standardized_df, year)
        index == union_sorted(IndexOf(me_totals.df), IndexOf(nh_totals.df))
    IN  IF me_totals.err # "" THEN me_totals
        ELSE IF nh_totals.err # "" THEN nh_totals
        ELSE Ok([i \in 1..Len(index) |->
                    [Department |-> index[i],
                     ME |-> At(me_totals.df, index[i]),
                     NH |-> At(nh_totals.df, index[i])]])

create_state_comparison(year, me_standardized_df, nh_standardized_df) ==
    LET me_totals == department_totals(me_standardized_df, year)
        nh_totals == department_totals(nh_standardized_df, year)
        index == union_sorted(IndexOf(me_totals.df), IndexOf(nh_totals.df))
    IN  IF me_totals.err # "" THEN me_totals
        ELSE IF nh_totals.err # "" THEN nh_totals
        ELSE Ok([i \in 1..Len(index) |->
                    [Department |-> index[i],
                     ME |-> Fillna0(At(me_totals.df, index[i])),
                     NH |-> Fillna0(At(nh_totals.df, index[i]))]])

\* (df / Config.DEPARTMENT_SCALE).round(0)
scale_to_millions(df) ==
    [i \in 1..Len(df) |->
        [df[i] EXCEPT !.vals =
            [y \in DOMAIN df[i].vals |->
                Round0(Div(df[i].vals[y], Num(DEPARTMENT_SCALE)))]]]

\* the table left in the order of its index
sort_values_omitted(rows) == rows

\* comparison_df.sort_values(by=('ME', end_year), ascending=False): largest
\* first, NaN last, rows of equal level in their previous order
RECURSIVE sort_values_desc(_)
sort_values_desc(rows) ==
    IF rows = <<>> THEN <<>>
    ELSE LET first == Head(rows)
             rest == sort_values_desc(Tail(rows))
             before(r) == /\ ~IsNaN(r.ME.end_level)
                          /\ \/ IsNaN(first.ME.end_level)
                             \/ Less(first.ME.end_level, r.ME.end_level)
         IN  SelectSeq(rest, before) \o <<first>>
             \o SelectSeq(rest, LAMBDA r : ~before(r))

\* comparison_df.replace([np.inf, -np.inf], np.nan)
inf_to_nan(x) == IF IsInf(x) THEN NaN ELSE x

\* the table returned without line 175
replace_inf_omitted(rows) == rows

replace_inf(rows) ==
    [i \in 1..Len(rows) |->
        [Department |-> rows[i].Department,
         ME |-> [f \in DOMAIN rows[i].ME |-> inf_to_nan(rows[i].ME[f])],
         NH |-> [f \in DOMAIN rows[i].NH |-> inf_to_nan(rows[i].NH[f])],
         ME_vs_NH |-> [f \in DOMAIN rows[i].ME_vs_NH |-> inf_to_nan(rows[i].ME_vs_NH[f])]]]

\* the growth in the gap taken as the sum of the two changes
through_time_row_changes_added(dept, me_end, me_start, nh_end, nh_start) ==
    [Department |-> dept,
     ME |-> [end_level |-> me_end,
             start_level |-> me_start,
             change |-> Sub(me_end, me_start),
             pct_change |-> Mul(Div(Sub(me_end, me_start), me_start), Num(100))],
     NH |-> [end_level |-> nh_end,
             start_level |-> nh_start,
             change |-> Sub(nh_end, nh_start),
             pct_change |-> Mul(Div(Sub(nh_end, nh_start), nh_start), Num(100))],
     ME_vs_NH |-> [end_diff |-> Sub(me_end, nh_end),
                   end_pct_diff |-> Mul(Div(Sub(me_end, nh_end), nh_end), Num(100)),
                   start_diff |-> Sub(me_start, nh_start),
                   growth_in_diff |-> Add(Sub(me_end, me_start), Sub(nh_end, nh_start))]]

\* data_processing.py:137-171: the columns of one department
through_time_row(dept, me_end, me_start, nh_end, nh_start) ==
    [Department |-> dept,
     ME |-> [end_level |-> me_end,
             start_level |-> me_start,
             change |-> Sub(me_end, me_start),
             pct_change |-> Mul(Div(Sub(me_end, me_start), me_start), Num(100))],
     NH |-> [end_level |-> nh_end,
             start_level |-> nh_start,
             change |-> Sub(nh_end, nh_start),
             pct_change |-> Mul(Div(Sub(nh_end, nh_start), nh_start), Num(100))],
     ME_vs_NH |-> [end_diff |-> Sub(me_end, nh_end),
                   end_pct_diff |-> Mul(Div(Sub(me_end, nh_end), nh_end), Num(100)),
                   start_diff |-> Sub(me_start, nh_start),
                   growth_in_diff |-> Sub(Sub(me_end, me_start), Sub(nh_end, nh_start))]]

create_state_comparison_through_time(me_standardized_df, nh_standardized_df, start_year, end_year) ==
    LET me_scaled == scale_to_millions(me_standardized_df)
        nh_scaled == scale_to_millions(nh_standardized_df)
        me_end_totals == department_totals(me_scaled, end_year)
        nh_end_totals == department_totals(nh_scaled, end_year)
        me_start_totals == department_totals(me_scaled, start_year)
        nh_start_totals == department_totals(nh_scaled, start_year)
        \* pd.concat(axis=1): the ME departments, then those only NH has
        me_index == SelectSeq(DeptOrder, LAMBDA dp : dp \in IndexOf(me_end_totals.df))
        nh_only == SelectSeq(DeptOrder,
                             LAMBDA dp : /\ dp \in IndexOf(nh_end_totals.df)
                                         /\ dp \notin IndexOf(me_end_totals.df))
        index == me_index \o nh_only
        comparison_df ==
            [i \in 1..Len(index) |->
                through_time_row(index[i],
                                 At(me_end_totals.df, index[i]),
                                 At(me_start_totals.df, index[i]),
                                 At(nh_end_totals.df, index[i]),
                                 At(nh_start_totals.df, index[i]))]
    IN  IF me_end_totals.err # "" THEN me_end_totals
        ELSE IF nh_end_totals.err # "" THEN nh_end_totals
        ELSE IF me_start_totals.err # "" THEN me_start_totals
        ELSE IF nh_start_totals.err # "" THEN nh_start_totals
        ELSE Ok(replace_inf(sort_values_desc(comparison_df)))

(***************************************************************************)
(* Economic Index Builder                                                  *)
(* A FRED series is a sequence of [year, obs] in year order, obs the       *)
(* observations of that year; an economic table is [columns, rows] with    *)
(* the year columns in order and one row [name, vals] per series.          *)
(***************************************************************************)
CPI == "CPI"
MAINE_GDP == "Maine GDP"
NEW_HAMPSHIRE_GDP == "New Hampshire GDP"
MAINE_POPULATION == "Maine Population"
CPI_AND_POPULATION == "CPI & Population Growth"

\* the rows of the DataFrame built at data_ingestion.py:273-278
SeriesNames == <<CPI, MAINE_GDP, NEW_HAMPSHIRE_GDP, MAINE_POPULATION>>

\* default start_date / start_year ('2016') of get_economic_indicators_df
\* and produce_economic_index_df
START_YEAR == 2016

\* data.resample('YE').mean(), filtered to index >= start_date
get_fred_series(series, start_date) ==
    LET resampled ==
            [i \in 1..Len(series) |->
                [year |-> series[i].year,
                 value |-> Div(SumSkipNa(series[i].obs), Num(Len(series[i].obs)))]]
    IN  SelectSeq(resampled, LAMBDA o : o.year >= start_date)

ObservedYears(filtered) == {filtered[i].year : i \in 1..Len(filtered)}

ValueIn(filtered, year) ==
    IF year \in ObservedYears(filtered)
    THEN filtered[CHOOSE i \in 1..Len(filtered) : filtered[i].year = year].value
    ELSE NaN

RECURSIVE SortedYears(_)
SortedYears(S) ==
    IF S = {} THEN <<>>
    ELSE LET m == CHOOSE y \in S : \A z \in S : y <= z
         IN  <<m>> \o SortedYears(S \ {m})

\* pd.DataFrame({...}).transpose(): the columns are the union of the years
\* of the four series, a series without an observation in a year has NaN
get_economic_indicators_df(fred_client, start_date) ==
    IF ~fred_client.available THEN Raise("Exception")
    ELSE LET filtered == [name \in DOMAIN fred_client.series |->
                             get_fred_series(fred_client.series[name], start_date)]
             columns == SortedYears(UNION {ObservedYears(filtered[name]) :
                                             name \in DOMAIN filtered})
         IN  Ok([columns |-> columns,
                 rows |-> [i \in 1..Len(SeriesNames) |->
                             [name |-> SeriesNames[i],
                              vals |-> [y \in {columns[c] : c \in 1..Len(columns)} |->
                                           ValueIn(filtered[SeriesNames[i]], y)]]]])

\* economic_index_df.loc[name]
Loc(econ_df, name) ==
    econ_df.rows[CHOOSE i \in 1..Len(econ_df.rows) : econ_df.rows[i].name = name]

add_cpi_times_pop_growth_index(economic_index_df) ==
    LET cpi_index == Loc(economic_index_df, CPI)
        pop_index == Loc(economic_index_df, MAINE_POPULATION)
        cpi_and_pop_growth ==
            [name |-> CPI_AND_POPULATION,
             vals |-> [y \in DOMAIN cpi_index.vals |->
                          Mul(cpi_index.vals[y], pop_index.vals[y])]]
    IN  [economic_index_df EXCEPT !.rows = @ \o <<cpi_and_pop_growth>>]

\* econ_df.div(econ_df.iloc[:, 0], axis=0): every row divided by its value
\* in the first column; IndexError when the table has no column
div_by_first_column(econ_df) ==
    [econ_df EXCEPT !.rows =
        [i \in 1..Len(econ_df.rows) |->
            [econ_df.rows[i] EXCEPT !.vals =
                [y \in DOMAIN econ_df.rows[i].vals |->
                    Div(econ_df.rows[i].vals[y],
                        econ_df.rows[i].vals[econ_df.columns[1]])]]]]

produce_economic_index_df(fred_client, start_year) ==
    LET econ_df == get_economic_indicators_df(fred_client, start_year)
    IN  IF econ_df.err # "" THEN econ_df
        ELSE IF econ_df.df.columns = <<>> THEN Raise("IndexError")
        ELSE Ok(add_cpi_times_pop_growth_index(div_by_first_column(econ_df.df)))

\* the year main.py sorts the index table by
SORT_YEAR == 2023

RECURSIVE insert_desc(_, _, _)
insert_desc(sorted, row, year) ==
    IF sorted = <<>> THEN <<row>>
    ELSE IF /\ ~IsNaN(row.vals[year])
            /\ (IsNaN(Head(sorted).vals[year])
                \/ Less(Head(sorted).vals[year], row.vals[year]))
         THEN <<row>> \o sorted
         ELSE <<Head(sorted)>> \o insert_desc(Tail(sorted), row, year)

RECURSIVE sort_rows_desc(_, _)
sort_rows_desc(rows, year) ==
    IF rows = <<>> THEN <<>>
    ELSE insert_desc(sort_rows_desc(SubSeq(rows, 1, Len(rows) - 1), year),
                     rows[Len(rows)], year)

\* .sort_values(by='2023', ascending=False): KeyError without the column,
\* NaN last
sort_by_year(result, year) ==
    IF result.err # "" THEN result
    ELSE IF year \notin {result.df.columns[c] : c \in 1..Len(result.df.columns)}
         THEN Raise("KeyError")
         ELSE Ok([result.df EXCEPT !.rows = sort_rows_desc(@, year)])

(***************************************************************************)
(* Growth index with extension (b_App/visualizations.py)                   *)
(* A growth series is a sequence of [year, value] in index order.  A       *)
(* growth index is coef * base ^ (exp / root): the fractional power of     *)
(* line 681 is kept symbolic, exp = 0 when no power is applied.            *)
(***************************************************************************)
\* lookback_years=5 of the call in produce_department_bar_chart
LOOKBACK_YEARS == 5

Plain(x) == [coef |-> x, base |-> Num(1), exp |-> 0, root |-> 1]

\* (ratio ** (1 / root)) ** exp as float64 computes it: x ** 0 is 1.0 also
\* for NaN, NaN to any other power is NaN, 1.0 to any power is 1.0
GrowthPower(ratio, root, exp) ==
    IF exp = 0 \/ ratio = Num(1) THEN Plain(Num(1))
    ELSE IF ~IsNum(ratio) THEN Plain(NaN)
    ELSE [coef |-> Num(1), base |-> ratio, exp |-> exp, root |-> root]

Times(x, power) ==
    IF IsNaN(x) \/ IsNaN(power.coef) THEN Plain(NaN)
    ELSE [power EXCEPT !.coef = Mul(x, power.coef)]

SeriesIndex(series) == {series[i].year : i \in 1..Len(series)}

\* series.loc[year]
SeriesLoc(series, year) ==
    series[CHOOSE i \in 1..Len(series) : series[i].year = year].value

geo_growth_index_helper(series, start, end) ==
    IF start \notin SeriesIndex(series) \/ end \notin SeriesIndex(series) THEN NaN
    ELSE IF SeriesLoc(series, start) = Num(0) THEN NaN
    ELSE Div(SeriesLoc(series, end), SeriesLoc(series, start))

\* series.tail(1).index[0] raises IndexError on an empty series
calc_geo_growth_index_w_extension(series, start_year, end_year, lookback_years) ==
    IF series = <<>> THEN Raise("IndexError")
    ELSE
    LET latest_series_year == series[Len(series)].year
        start_year_is_defined == start_year \in SeriesIndex(series)
        target_year_is_defined == end_year \in SeriesIndex(series)
        window == geo_growth_index_helper(series, latest_series_year - lookback_years,
                                          latest_series_year)
    IN  IF ~target_year_is_defined
        THEN IF start_year_is_defined
             THEN Ok(Times(geo_growth_index_helper(series, start_year, latest_series_year),
                           GrowthPower(window, lookback_years,
                                       end_year - latest_series_year)))
             ELSE Ok(GrowthPower(window, lookback_years, end_year - start_year))
        ELSE Ok(Plain(geo_growth_index_helper(series, start_year, end_year)))

(***************************************************************************)
(* Input tables of the Raw Table Loader                                    *)
(***************************************************************************)
\* number of as-reported departments of a jurisdiction's table
MaxDepts == 2

MeDeptNames == <<"A", "B", "C">>
MeDepts == {MeDeptNames[i] : i \in 1..MaxDepts}

V(a, b) == [y \in YearSet |-> IF y = Years[1] THEN a ELSE b]
Opt(S) == {<<>>} \cup {<<v>> : v \in S}
OptRow(dept, fs, o) == IF o = <<>> THEN <<>> ELSE <<Row(dept, fs, o[1])>>

MeTotalVals == {V(Num(120), Num(130)), V(Num(500), NaN)}
MeFederalVals == {V(Num(20), Num(30)), V(NaN, Num(80))}
MeGeneralVals == {V(Num(100), Num(100))}
MeProfiles == Opt(MeTotalVals) \X Opt(MeFederalVals) \X Opt(MeGeneralVals)

\* what the extraction captured of the grand-total block: nothing, or rows
\* whose amounts are not the true sums
GrandTotalRows ==
    { <<>>,
      <<Row(GRAND_TOTALS, DEPARTMENT_TOTAL, V(Num(999), Num(999)))>>,
      <<Row(GRAND_TOTALS, DEPARTMENT_TOTAL, V(Num(120), NaN)),
        Row(GRAND_TOTALS, OTHER_FUND, V(Num(7), Num(7)))>> }

MeRows(profile, g) ==
    ConcatAll([i \in 1..MaxDepts |->
                 OptRow(MeDeptNames[i], DEPARTMENT_TOTAL, profile[MeDeptNames[i]][1])
                 \o OptRow(MeDeptNames[i], FEDERAL, profile[MeDeptNames[i]][2])
                 \o OptRow(MeDeptNames[i], GENERAL_FUND, profile[MeDeptNames[i]][3])])
    \o g

\* the tables handed to standardize_budget: per department one of a few
\* row sets (a total only; a total and a fund; a total with a missing year,
\* a federal and a general fund; a fund without a total)
StdDeptNames == <<"A", "B">>
StdDepts == {StdDeptNames[i] : i \in 1..Len(StdDeptNames)}

MaineProfiles(dept) ==
    { <<>>,
      <<Row(dept, DEPARTMENT_TOTAL, V(Num(500), Num(130)))>>,
      <<Row(dept, DEPARTMENT_TOTAL, V(Num(500), Num(130))),
        Row(dept, GENERAL_FUND, V(Num(80), NaN))>>,
      <<Row(dept, DEPARTMENT_TOTAL, V(Num(120), NaN)),
        Row(dept, FEDERAL, V(Num(20), Num(30))),
        Row(dept, GENERAL_FUND, V(Num(80), Num(20)))>>,
      <<Row(dept, GENERAL_FUND, V(Num(80), Num(20)))>> }

\* load_and_clean_nh_budget: the funding source is always DEPARTMENT TOTAL
NewHampshireProfiles(dept) ==
    { <<>>,
      <<Row(dept, DEPARTMENT_TOTAL, V(Num(500), Num(130)))>>,
      <<Row(dept, DEPARTMENT_TOTAL, V(Num(120), NaN))>> }

AsReportedTables(state) ==
    { ConcatAll([i \in 1..Len(StdDeptNames) |-> profile[StdDeptNames[i]]]) :
        profile \in { f \in [StdDepts -> UNION {MaineProfiles(dp) \cup NewHampshireProfiles(dp) : dp \in StdDepts}] :
                        \A dp \in StdDepts :
                            f[dp] \in (IF state = MAINE THEN MaineProfiles(dp)
                                       ELSE NewHampshireProfiles(dp)) } }
    \ {<<>>}

OtherState(state) == IF state = MAINE THEN NEW_HAMPSHIRE ELSE MAINE

StandardizedNames == {"X", "Y"}

\* the Standardized column as the mapping files spell it
DirectFileNames == {"X", "y"}

\* department_mapping.csv: at most one rule per (State, As Reported); the
\* other jurisdiction maps the same as-reported names to "Z"
DirectMappingFiles(state) ==
    { ConcatAll([i \in 1..Len(StdDeptNames) |->
                    (IF choice[StdDeptNames[i]] = ""
                     THEN <<>>
                     ELSE <<DirectRule(state, StdDeptNames[i], choice[StdDeptNames[i]])>>)
                    \o <<DirectRule(OtherState(state), StdDeptNames[i], "Z")>>]) :
        choice \in [StdDepts -> DirectFileNames \cup {""}] }

\* number of sub-department rules of the jurisdiction
MaxSubRules == 2

SubRuleFunds == <<DEPARTMENT_TOTAL, FEDERAL, GENERAL_FUND>>
SubRuleTargets == <<"x", "Y">>

SubRuleCandidates(state) ==
    [i \in 1..(Len(StdDeptNames) * Len(SubRuleFunds) * Len(SubRuleTargets)) |->
        SubRule(state,
                StdDeptNames[((i - 1) \div (Len(SubRuleFunds) * Len(SubRuleTargets))) + 1],
                SubRuleFunds[(((i - 1) \div Len(SubRuleTargets)) % Len(SubRuleFunds)) + 1],
                SubRuleTargets[((i - 1) % Len(SubRuleTargets)) + 1])]

\* the sub-department mapping file: at most one rule per (State, As
\* Reported, Funding Source); the other jurisdiction has rules on the same
\* as-reported names
SubMappingFiles(state) ==
    { SelectSeq(SubRuleCandidates(state), LAMBDA rule : rule \in chosen)
      \o <<SubRule(OtherState(state), "A", GENERAL_FUND, "Z"),
           SubRule(OtherState(state), "B", DEPARTMENT_TOTAL, "Z")>> :
        chosen \in { S \in SUBSET {SubRuleCandidates(state)[i] :
                                     i \in 1..Len(SubRuleCandidates(state))} :
                        /\ Cardinality(S) <= MaxSubRules
                        /\ \A r1, r2 \in S :
                              (r1.AsReported = r2.AsReported
                               /\ r1.FundingSource = r2.FundingSource) => r1 = r2 } }

\* largest amount of the comparator's tables, in half millions: the
\* amounts run from -0.5 million in steps of half a million, so that the
\* scaled levels round to zero, round half to even, and are negative
MaxHalfMillions == 3

ComparatorAmounts ==
    {Num((h * DEPARTMENT_SCALE) \div 2) : h \in (-1)..MaxHalfMillions}
ComparatorVals == {V(a, b) : a, b \in ComparatorAmounts}

\* standardized tables (the output of groupby().sum(): unique keys, no NaN):
\* X with any amounts or absent and one more department in each
\* jurisdiction; Maine also has a department with no DEPARTMENT TOTAL row
MeStandardizedTables ==
    { OptRow("X", DEPARTMENT_TOTAL, x)
      \o OptRow("Y", DEPARTMENT_TOTAL, yv)
      \o <<Row("Z", GENERAL_FUND, V(Num(DEPARTMENT_SCALE), Num(DEPARTMENT_SCALE)))>> :
        x \in Opt(ComparatorVals),
        yv \in Opt({V(Num(DEPARTMENT_SCALE), Num(3 * DEPARTMENT_SCALE))}) }

NhStandardizedTables ==
    { OptRow("X", DEPARTMENT_TOTAL, x) \o OptRow("Z", DEPARTMENT_TOTAL, z) :
        x \in Opt(ComparatorVals),
        z \in Opt({V(Num(0), Num(2 * DEPARTMENT_SCALE))}) }

\* New Hampshire's budget years need not be Maine's: tables whose year
\* columns are "2018" and "2026"
NhOtherYearsTables ==
    { <<Row("X", DEPARTMENT_TOTAL, ("2018" :> a) @@ ("2026" :> b))>> :
        a, b \in {Num(0), Num(2 * DEPARTMENT_SCALE)} }

\* the years of the sidebar; "2026" is not a column of the tables
YearOptions == {"2018", "2025", "2026"}

\* number of years after the first year a FRED series is published for
MaxEconYears == 8

FirstNativeYear == START_YEAR - 1
LastNativeYear == FirstNativeYear + MaxEconYears

Level(base, step, year) == base + step * (year - FirstNativeYear)

\* a series published from first to last with obs_per_year observations a
\* year, spread evenly around the year's level
FredSeries(base, step, first, last, spread) ==
    [i \in 1..(last - first + 1) |->
        [year |-> first + i - 1,
         obs |-> IF spread = 0
                 THEN <<Num(Level(base, step, first + i - 1))>>
                 ELSE <<Num(Level(base, step, first + i - 1) - spread),
                        Num(Level(base, step, first + i - 1) + spread)>>]]

\* the FRED service: unreachable, or serving the four series, each from
\* its own first year; the population series may end a year early
FredClients ==
    { [available |-> a,
       series |-> (CPI :> FredSeries(90, 10, c, LastNativeYear, 2))
                  @@ (MAINE_GDP :> FredSeries(50, 5, FirstNativeYear, LastNativeYear, 0))
                  @@ (NEW_HAMPSHIRE_GDP :> FredSeries(60, 20, n, LastNativeYear, 0))
                  @@ (MAINE_POPULATION :> FredSeries(1300, 13, q, e, 0))] :
        a \in BOOLEAN,
        c \in FirstNativeYear..(START_YEAR + 1),
        n \in START_YEAR..(START_YEAR + 1),
        q \in FirstNativeYear..(START_YEAR + 1),
        e \in (LastNativeYear - 1)..LastNativeYear }

\* the tables main() loads: every department with its total, federal and
\* general fund rows, with a total only, or with a total and a federal row
\* in millions
PipelineMeProfiles ==
    { <<<<V(Num(120), Num(130))>>, <<V(Num(20), Num(30))>>, <<V(Num(100), Num(100))>>>>,
      <<<<V(Num(500), NaN)>>, <<>>, <<>>>>,
      <<<<V(Num(3 * DEPARTMENT_SCALE), Num(4 * DEPARTMENT_SCALE))>>,
        <<V(Num(DEPARTMENT_SCALE), Num(DEPARTMENT_SCALE))>>, <<>>>> }

PipelineMeTables ==
    { MeRows(profile, g) : profile \in [MeDepts -> PipelineMeProfiles],
                           g \in GrandTotalRows }

PipelineSubMappingFiles ==
    { file \in SubMappingFiles(MAINE) :
        /\ Cardinality({i \in 1..Len(file) : file[i].State = MAINE}) <= 1
        /\ \A i \in 1..Len(file) :
              file[i].State = MAINE => file[i].FundingSource = GENERAL_FUND }

\* the FRED service of main(): unreachable, or serving every series from
\* the start year to the last year
PipelineFredClients ==
    { client \in FredClients :
        \A name \in DOMAIN client.series :
            /\ client.series[name][1].year <= START_YEAR
            /\ name # MAINE_GDP => client.series[name][1].year = START_YEAR
            /\ client.series[name][Len(client.series[name])].year = LastNativeYear }

\* the 'CPI & Population Growth' row after dropna(): the years from first
\* to last but for hole, rising by step from base
GrowthSeries(first, last, hole, base, step) ==
    SelectSeq([i \in 1..(last - first + 1) |->
                  [year |-> first + i - 1, value |-> Num(base + step * (i - 1))]],
              LAMBDA o : o.year # hole)

GrowthSeriesSet ==
    {<<>>} \cup
    { GrowthSeries(first, last, hole, base, step) :
        first \in {START_YEAR, START_YEAR + 2},
        last \in (LastNativeYear - 1)..LastNativeYear,
        hole \in {0, START_YEAR + 2, START_YEAR + 4},
        base \in {0, 100},
        step \in {0, 10} }

\* the budget years the charts are drawn for
GrowthYears == {START_YEAR - 1, START_YEAR, START_YEAR + 2, START_YEAR + 4,
                LastNativeYear, LastNativeYear + 2}

VARIABLES pc,
          me_as_reported_df, me_budget_clean_totals_df, me_processed_df,
          full_state_name, as_reported_df, category_mapping_df, sub_category_map_df,
          department_mapping_csv, sub_department_mapping_csv,
          standardized_df_from_sub_departments, totals_already_mapped,
          remaining_funds_df, standardized_df_from_direct_mapping,
          standardized_df, stdout,
          me_standardized_df, nh_standardized_df,
          selected_year_current, selected_year_previous,
          comparison_through_time_df, comparison_df_current,
          fred, raw_economic_df, economic_index_df,
          nh_as_reported_df,
          growth_series, prior_year, chart_year, lookback_years, growth_index,
          nh_budget_csv, cache_data, run

reconcile_vars == <<me_as_reported_df, me_budget_clean_totals_df, me_processed_df>>
standardize_inputs ==
    <<full_state_name, as_reported_df, category_mapping_df, sub_category_map_df,
      department_mapping_csv, sub_department_mapping_csv>>
standardize_vars ==
    <<standardize_inputs, standardized_df_from_sub_departments, totals_already_mapped,
      remaining_funds_df, standardized_df_from_direct_mapping, standardized_df, stdout>>

compare_inputs ==
    <<me_standardized_df, nh_standardized_df, selected_year_current, selected_year_previous>>
compare_vars == <<compare_inputs, comparison_through_time_df, comparison_df_current>>

econ_vars == <<fred, raw_economic_df, economic_index_df>>

growth_inputs == <<growth_series, prior_year, chart_year, lookback_years>>
growth_vars == <<growth_inputs, growth_index>>

run_vars == <<nh_budget_csv, cache_data, run>>

vars == <<pc, reconcile_vars, standardize_vars, compare_vars, econ_vars, nh_as_reported_df,
          growth_vars, run_vars>>

ReconcileIdle ==
    /\ me_as_reported_df = <<>>
    /\ me_budget_clean_totals_df = None
    /\ me_processed_df = None

StandardizeIdle ==
    /\ full_state_name = ""
    /\ as_reported_df = <<>>
    /\ category_mapping_df = <<>>
    /\ sub_category_map_df = <<>>
    /\ department_mapping_csv = <<>>
    /\ sub_department_mapping_csv = <<>>
    /\ standardized_df_from_sub_departments = <<>>
    /\ totals_already_mapped = <<>>
    /\ remaining_funds_df = <<>>
    /\ standardized_df_from_direct_mapping = <<>>
    /\ standardized_df = <<>>
    /\ stdout = <<>>

CompareIdle ==
    /\ me_standardized_df = <<>>
    /\ nh_standardized_df = <<>>
    /\ selected_year_current = ""
    /\ selected_year_previous = ""
    /\ comparison_through_time_df = None
    /\ comparison_df_current = None

EconIdle ==
    /\ fred = [available |-> FALSE, series |-> <<>>]
    /\ raw_economic_df = None
    /\ economic_index_df = None

LoaderIdle == nh_as_reported_df = <<>>

GrowthIdle ==
    /\ growth_series = <<>>
    /\ prior_year = 0
    /\ chart_year = 0
    /\ lookback_years = 0
    /\ growth_index = None

\* st.cache_data before the first call of a cached loader
EmptyCache ==
    [load_nh_budget_as_reported |-> <<>>,
     load_department_mapping |-> <<>>,
     load_sub_department_mapping |-> <<>>,
     get_economic_indicators_df |-> <<>>]

RunsIdle ==
    /\ nh_budget_csv = <<>>
    /\ cache_data = EmptyCache
    /\ run = 0

(***************************************************************************)
(* SpecReconcile: process_me_budget on every loader table                  *)
(***************************************************************************)
InitReconcile ==
    /\ pc = "clean_total_rows"
    /\ RunsIdle
    /\ \E profile \in [MeDepts -> MeProfiles], g \in GrandTotalRows :
          me_as_reported_df = MeRows(profile, g)
    /\ me_budget_clean_totals_df = None
    /\ me_processed_df = None
    /\ StandardizeIdle
    /\ CompareIdle
    /\ EconIdle
    /\ LoaderIdle
    /\ GrowthIdle

CleanTotalRows ==
    /\ pc = "clean_total_rows"
    /\ me_budget_clean_totals_df' = clean_total_rows(me_as_reported_df)
    /\ pc' = IF me_budget_clean_totals_df'.err # "" THEN "raised"
             ELSE "add_department_total_ex_federal"
    /\ me_processed_df' = IF me_budget_clean_totals_df'.err # ""
                          THEN me_budget_clean_totals_df' ELSE me_processed_df
    /\ UNCHANGED <<run_vars, growth_vars, econ_vars, nh_as_reported_df, me_as_reported_df, standardize_vars, compare_vars>>

AddDepartmentTotalExFederal ==
    /\ pc = "add_department_total_ex_federal"
    /\ me_processed_df' = add_department_total_ex_federal(me_budget_clean_totals_df.df)
    /\ pc' = IF me_processed_df'.err # "" THEN "raised" ELSE "processed"
    /\ UNCHANGED <<run_vars, growth_vars, econ_vars, nh_as_reported_df, me_as_reported_df, me_budget_clean_totals_df, standardize_vars, compare_vars>>

NextReconcile == CleanTotalRows \/ AddDepartmentTotalExFederal

SpecReconcile == InitReconcile /\ [][NextReconcile]_vars

(***************************************************************************)
(* SpecStandardize: one call of standardize_budget, statement by statement *)
(***************************************************************************)
InitStandardize ==
    /\ pc = "sub_departments"
    /\ RunsIdle
    /\ ReconcileIdle
    /\ CompareIdle
    /\ EconIdle
    /\ LoaderIdle
    /\ GrowthIdle
    /\ \E state \in {MAINE, NEW_HAMPSHIRE} :
          /\ full_state_name = state
          /\ as_reported_df \in AsReportedTables(state)
          /\ department_mapping_csv \in DirectMappingFiles(state)
          /\ sub_department_mapping_csv \in SubMappingFiles(state)
    /\ category_mapping_df = load_department_mapping(department_mapping_csv)
    /\ sub_category_map_df = load_department_mapping(sub_department_mapping_csv)
    /\ standardized_df_from_sub_departments = <<>>
    /\ totals_already_mapped = <<>>
    /\ remaining_funds_df = <<>>
    /\ standardized_df_from_direct_mapping = <<>>
    /\ standardized_df = <<>>
    /\ stdout = <<>>

\* data_processing.py:97
SubDepartmentPath ==
    /\ pc = "sub_departments"
    /\ standardized_df_from_sub_departments' =
          standardize_budget_from_sub_departments(
              as_reported_df, sub_category_map_df, full_state_name)
    /\ pc' = "identify_double_counted"
    /\ UNCHANGED <<run_vars, growth_vars, econ_vars, nh_as_reported_df, reconcile_vars, compare_vars, standardize_inputs, totals_already_mapped,
                   remaining_funds_df, standardized_df_from_direct_mapping,
                   standardized_df, stdout>>

\* data_processing.py:100
IdentifyDoubleCounted ==
    /\ pc = "identify_double_counted"
    /\ totals_already_mapped' =
          identify_double_counted_departments(
              as_reported_df, sub_category_map_df, full_state_name)
    /\ pc' = "subtract"
    /\ UNCHANGED <<run_vars, growth_vars, econ_vars, nh_as_reported_df, reconcile_vars, compare_vars, standardize_inputs, standardized_df_from_sub_departments,
                   remaining_funds_df, standardized_df_from_direct_mapping,
                   standardized_df, stdout>>

\* data_processing.py:101
SubtractAlreadyMapped ==
    /\ pc = "subtract"
    /\ remaining_funds_df' = remaining_funds(as_reported_df, totals_already_mapped)
    /\ pc' = "direct_mapping"
    /\ UNCHANGED <<run_vars, growth_vars, econ_vars, nh_as_reported_df, reconcile_vars, compare_vars, standardize_inputs, standardized_df_from_sub_departments,
                   totals_already_mapped, standardized_df_from_direct_mapping,
                   standardized_df, stdout>>

\* the direct path fed with the raw table
DirectMappingPathOnRawTable ==
    /\ pc = "direct_mapping"
    /\ standardized_df_from_direct_mapping' =
          standardize_budget_from_direct_mapping(
              as_reported_df, category_mapping_df, full_state_name)
    /\ stdout' = stdout \o unmapped_report(as_reported_df, category_mapping_df,
                                           full_state_name)
    /\ pc' = "combine"
    /\ UNCHANGED <<run_vars, growth_vars, econ_vars, nh_as_reported_df, reconcile_vars, compare_vars,
                   standardize_inputs, standardized_df_from_sub_departments,
                   totals_already_mapped, remaining_funds_df, standardized_df>>

\* data_processing.py:104
DirectMappingPath ==
    /\ pc = "direct_mapping"
    /\ standardized_df_from_direct_mapping' =
          standardize_budget_from_direct_mapping(
              remaining_funds_df, category_mapping_df, full_state_name)
    /\ stdout' = stdout \o unmapped_report(remaining_funds_df, category_mapping_df,
                                           full_state_name)
    /\ pc' = "combine"
    /\ UNCHANGED <<run_vars, growth_vars, econ_vars, nh_as_reported_df, reconcile_vars, compare_vars, standardize_inputs, standardized_df_from_sub_departments,
                   totals_already_mapped, remaining_funds_df, standardized_df>>

\* the two paths concatenated without the final groupby
CombinePathsWithoutGroupby ==
    /\ pc = "combine"
    /\ standardized_df' =
          standardized_df_from_direct_mapping \o standardized_df_from_sub_departments
    /\ pc' = "standardized"
    /\ UNCHANGED <<run_vars, growth_vars, econ_vars, nh_as_reported_df, reconcile_vars, compare_vars,
                   standardize_inputs, standardized_df_from_sub_departments,
                   totals_already_mapped, remaining_funds_df,
                   standardized_df_from_direct_mapping, stdout>>

\* data_processing.py:106-109
CombinePaths ==
    /\ pc = "combine"
    /\ standardized_df' =
          groupby_key_sum(standardized_df_from_direct_mapping
                          \o standardized_df_from_sub_departments)
    /\ pc' = "standardized"
    /\ UNCHANGED <<run_vars, growth_vars, econ_vars, nh_as_reported_df, reconcile_vars, compare_vars, standardize_inputs, standardized_df_from_sub_departments,
                   totals_already_mapped, remaining_funds_df,
                   standardized_df_from_direct_mapping, stdout>>

NextStandardize ==
    \/ SubDepartmentPath
    \/ IdentifyDoubleCounted
    \/ SubtractAlreadyMapped
    \/ DirectMappingPath
    \/ CombinePaths

SpecStandardize == InitStandardize /\ [][NextStandardize]_vars

(***************************************************************************)
(* SpecCompare: the comparator on standardized tables                      *)
(***************************************************************************)
InitCompare ==
    /\ pc = "comparison_through_time"
    /\ RunsIdle
    /\ ReconcileIdle
    /\ StandardizeIdle
    /\ EconIdle
    /\ LoaderIdle
    /\ GrowthIdle
    /\ me_standardized_df \in MeStandardizedTables
    /\ nh_standardized_df \in NhStandardizedTables \cup NhOtherYearsTables
    /\ selected_year_current \in YearOptions
    /\ selected_year_previous \in YearOptions
    /\ comparison_through_time_df = None
    /\ comparison_df_current = None

\* main.py:91, visualizations.create_styled_comparison_through_time
ComparisonThroughTime ==
    /\ pc = "comparison_through_time"
    /\ comparison_through_time_df' =
          create_state_comparison_through_time(
              me_standardized_df, nh_standardized_df,
              selected_year_previous, selected_year_current)
    /\ pc' = "comparison_df_current"
    /\ UNCHANGED <<run_vars, growth_vars, econ_vars, nh_as_reported_df, reconcile_vars, standardize_vars, compare_inputs, comparison_df_current>>

\* data_container.BudgetAnalysisData.comparison_df_current
ComparisonCurrent ==
    /\ pc = "comparison_df_current"
    /\ comparison_df_current' =
          create_state_comparison(selected_year_current,
                                  me_standardized_df, nh_standardized_df)
    /\ pc' = "compared"
    /\ UNCHANGED <<run_vars, growth_vars, econ_vars, nh_as_reported_df, reconcile_vars, standardize_vars, compare_inputs,
                   comparison_through_time_df>>

NextCompare == ComparisonThroughTime \/ ComparisonCurrent

SpecCompare == InitCompare /\ [][NextCompare]_vars

(***************************************************************************)
(* SpecEcon: the economic tables of main.py:82-83 for every FRED service   *)
(***************************************************************************)
InitEcon ==
    /\ pc = "get_economic_indicators_df"
    /\ RunsIdle
    /\ ReconcileIdle
    /\ StandardizeIdle
    /\ CompareIdle
    /\ LoaderIdle
    /\ GrowthIdle
    /\ fred \in FredClients
    /\ raw_economic_df = None
    /\ economic_index_df = None

\* main.py:82
GetEconomicIndicators ==
    /\ pc = "get_economic_indicators_df"
    /\ raw_economic_df' = get_economic_indicators_df(fred, START_YEAR)
    /\ pc' = IF raw_economic_df'.err # "" THEN "raised" ELSE "produce_economic_index_df"
    /\ UNCHANGED <<run_vars, growth_vars, reconcile_vars, standardize_vars, compare_vars, nh_as_reported_df,
                   fred, economic_index_df>>

\* main.py:83
ProduceEconomicIndex ==
    /\ pc = "produce_economic_index_df"
    /\ economic_index_df' = sort_by_year(produce_economic_index_df(fred, START_YEAR), SORT_YEAR)
    /\ pc' = IF economic_index_df'.err # "" THEN "raised" ELSE "indexed"
    /\ UNCHANGED <<run_vars, growth_vars, reconcile_vars, standardize_vars, compare_vars, nh_as_reported_df,
                   fred, raw_economic_df>>

NextEcon == GetEconomicIndicators \/ ProduceEconomicIndex

SpecEcon == InitEcon /\ [][NextEcon]_vars

(***************************************************************************)
(* Spec: the data stages of main(), main.py:65-91, in program order; an    *)
(* exception ends the run                                                  *)
(***************************************************************************)
Init ==
    /\ pc = "process_me_budget"
    /\ RunsIdle
    /\ me_as_reported_df \in PipelineMeTables
    /\ nh_as_reported_df \in AsReportedTables(NEW_HAMPSHIRE)
    /\ me_budget_clean_totals_df = None
    /\ me_processed_df = None
    /\ full_state_name = ""
    /\ as_reported_df = <<>>
    /\ department_mapping_csv \in DirectMappingFiles(MAINE)
    /\ sub_department_mapping_csv \in PipelineSubMappingFiles
    /\ category_mapping_df = load_department_mapping(department_mapping_csv)
    /\ sub_category_map_df = load_department_mapping(sub_department_mapping_csv)
    /\ standardized_df_from_sub_departments = <<>>
    /\ totals_already_mapped = <<>>
    /\ remaining_funds_df = <<>>
    /\ standardized_df_from_direct_mapping = <<>>
    /\ standardized_df = <<>>
    /\ stdout = <<>>
    /\ me_standardized_df = <<>>
    /\ nh_standardized_df = <<>>
    /\ selected_year_previous = Years[1]
    /\ selected_year_current = Years[2]
    /\ comparison_through_time_df = None
    /\ comparison_df_current = None
    /\ fred \in PipelineFredClients
    /\ GrowthIdle
    /\ raw_economic_df = None
    /\ economic_index_df = None

\* main.py:68
ProcessMeBudget ==
    /\ pc = "process_me_budget"
    /\ me_processed_df' = process_me_budget(me_as_reported_df)
    /\ pc' = IF me_processed_df'.err # "" THEN "raised" ELSE "standardize_maine"
    /\ UNCHANGED <<run_vars, growth_vars, me_as_reported_df, me_budget_clean_totals_df, standardize_vars,
                   compare_vars, econ_vars, nh_as_reported_df>>

\* main.py:79
StandardizeMaine ==
    /\ pc = "standardize_maine"
    /\ me_standardized_df' =
          standardize_budget(me_processed_df.df, category_mapping_df,
                             sub_category_map_df, MAINE)
    /\ stdout' = stdout \o standardize_budget_stdout(me_processed_df.df, category_mapping_df,
                                                     sub_category_map_df, MAINE)
    /\ pc' = "standardize_new_hampshire"
    /\ UNCHANGED <<run_vars, growth_vars, reconcile_vars, standardize_inputs, standardized_df_from_sub_departments,
                   totals_already_mapped, remaining_funds_df,
                   standardized_df_from_direct_mapping, standardized_df,
                   nh_standardized_df, selected_year_current, selected_year_previous,
                   comparison_through_time_df, comparison_df_current,
                   econ_vars, nh_as_reported_df>>

\* main.py:80
StandardizeNewHampshire ==
    /\ pc = "standardize_new_hampshire"
    /\ nh_standardized_df' =
          standardize_budget(nh_as_reported_df, category_mapping_df,
                             sub_category_map_df, NEW_HAMPSHIRE)
    /\ stdout' = stdout \o standardize_budget_stdout(nh_as_reported_df, category_mapping_df,
                                                     sub_category_map_df, NEW_HAMPSHIRE)
    /\ pc' = "get_economic_indicators_df"
    /\ UNCHANGED <<run_vars, growth_vars, reconcile_vars, standardize_inputs, standardized_df_from_sub_departments,
                   totals_already_mapped, remaining_funds_df,
                   standardized_df_from_direct_mapping, standardized_df,
                   me_standardized_df, selected_year_current, selected_year_previous,
                   comparison_through_time_df, comparison_df_current,
                   econ_vars, nh_as_reported_df>>

\* the scaling of data_processing.py:128-129 done on the caller's tables
CreateStyledComparisonThroughTimeInPlace ==
    /\ pc = "indexed"
    /\ comparison_through_time_df' =
          create_state_comparison_through_time(
              me_standardized_df, nh_standardized_df,
              selected_year_previous, selected_year_current)
    /\ me_standardized_df' = scale_to_millions(me_standardized_df)
    /\ nh_standardized_df' = scale_to_millions(nh_standardized_df)
    /\ pc' = IF comparison_through_time_df'.err # "" THEN "raised" ELSE "views"
    /\ UNCHANGED <<run_vars, growth_vars, reconcile_vars, standardize_vars,
                   selected_year_current, selected_year_previous, comparison_df_current,
                   econ_vars, nh_as_reported_df>>

\* main.py:91
CreateStyledComparisonThroughTime ==
    /\ pc = "indexed"
    /\ comparison_through_time_df' =
          create_state_comparison_through_time(
              me_standardized_df, nh_standardized_df,
              selected_year_previous, selected_year_current)
    /\ pc' = IF comparison_through_time_df'.err # "" THEN "raised" ELSE "views"
    /\ UNCHANGED <<run_vars, growth_vars, reconcile_vars, standardize_vars, compare_inputs, comparison_df_current,
                   econ_vars, nh_as_reported_df>>

Next ==
    \/ ProcessMeBudget
    \/ StandardizeMaine
    \/ StandardizeNewHampshire
    \/ GetEconomicIndicators
    \/ ProduceEconomicIndex
    \/ CreateStyledComparisonThroughTime

Spec == Init /\ [][Next]_vars

(***************************************************************************)
(* SpecGrowth: calc_geo_growth_index_w_extension on every series and pair  *)
(* of years                                                                *)
(***************************************************************************)
InitGrowth ==
    /\ pc = "calc_geo_growth_index_w_extension"
    /\ RunsIdle
    /\ ReconcileIdle
    /\ StandardizeIdle
    /\ CompareIdle
    /\ EconIdle
    /\ nh_as_reported_df = <<>>
    /\ growth_series \in GrowthSeriesSet
    /\ prior_year \in GrowthYears
    /\ chart_year \in GrowthYears
    /\ lookback_years \in {2, LOOKBACK_YEARS}
    /\ growth_index = None

\* visualizations.py:726
CalcGeoGrowthIndex ==
    /\ pc = "calc_geo_growth_index_w_extension"
    /\ growth_index' = calc_geo_growth_index_w_extension(
                           growth_series, prior_year, chart_year, lookback_years)
    /\ pc' = IF growth_index'.err # "" THEN "raised" ELSE "growth_index"
    /\ UNCHANGED <<run_vars, reconcile_vars, standardize_vars, compare_vars, econ_vars,
                   nh_as_reported_df, growth_inputs>>

NextGrowth == CalcGeoGrowthIndex

SpecGrowth == InitGrowth /\ [][NextGrowth]_vars

(***************************************************************************)
(* Claims on the Total Reconciler (SpecReconcile)                          *)
(***************************************************************************)
CleanReturned == me_budget_clean_totals_df.err = ""

\* the rows of the as-reported departments, the grand-total block left out
DepartmentRows(df) == SelectSeq(df, LAMBDA r : r.Department # GRAND_TOTALS)

\* sum of one funding source over the as-reported departments, absent
\* amounts counting as zero
FundingSourceSum(df, fs, y) ==
    SumSkipNa([i \in 1..Len(MeDeptNames) |-> Cell(df, MeDeptNames[i], fs, y)])

\* C3: clean_total_rows removes every row of the grand-total department and
\* adds, for each funding source of the remaining departments, exactly one
\* row (TOTAL, funding source) whose amount in each year is the sum of that
\* funding source over the remaining departments, absent amounts counting as
\* zero; the department rows are kept as they are and the amounts of the
\* discarded grand-total rows do not enter the result.
C3_TotalsRecomputed ==
    CleanReturned =>
        LET out == me_budget_clean_totals_df.df
            rest == DepartmentRows(me_as_reported_df)
        IN  /\ GRAND_TOTALS \notin DeptsOf(out)
            /\ UniqueKeys(out)
            /\ SelectSeq(out, LAMBDA r : r.Department # TOTAL) = rest
            /\ \A fs \in FundsOf(out) \cup FundsOf(me_as_reported_df) :
                  /\ <<TOTAL, fs>> \in KeysOf(out) <=> fs \in FundsOf(rest)
                  /\ fs \in FundsOf(rest) =>
                        \A y \in YearSet :
                            Cell(out, TOTAL, fs, y) = FundingSourceSum(rest, fs, y)

\* a captured grand total of 999 is replaced by 500 + 120 in 2018, and in
\* 2025 the absent amount of one department counts as zero
C3_Witness ==
    /\ CleanReturned
    /\ Cell(me_as_reported_df, GRAND_TOTALS, DEPARTMENT_TOTAL, "2018") = Num(999)
    /\ Cell(me_as_reported_df, "A", DEPARTMENT_TOTAL, "2025") = NaN
    /\ Cell(me_budget_clean_totals_df.df, TOTAL, DEPARTMENT_TOTAL, "2018") = Num(620)
    /\ Cell(me_budget_clean_totals_df.df, TOTAL, DEPARTMENT_TOTAL, "2025") = Num(130)

ExFederalCalled ==
    CleanReturned /\ pc \in {"processed", "raised"}

\* C4: add_department_total_ex_federal adds for every department a
\* DEPARTMENT TOTAL ex FEDERAL row whose amount in each year is DEPARTMENT
\* TOTAL minus FEDERAL EXPENDITURES FUND, and is DEPARTMENT TOTAL when the
\* department has no federal amount for that year (no federal row at all, or
\* no value in that year).
C4_ExFederalForEveryDepartment ==
    ExFederalCalled =>
        \A dept \in DeptsOf(me_budget_clean_totals_df.df), y \in YearSet :
            LET t == Cell(me_budget_clean_totals_df.df, dept, DEPARTMENT_TOTAL, y)
                f == Cell(me_budget_clean_totals_df.df, dept, FEDERAL, y)
            IN  /\ <<dept, EX_FEDERAL>> \in KeysOf(me_processed_df.df)
                  /\ Cell(me_processed_df.df, dept, EX_FEDERAL, y)
                        = (IF IsNaN(f) THEN t ELSE Sub(t, f))

\* C19: a department-year with a federal amount and no DEPARTMENT TOTAL
\* amount (no such row, or no value in that year) gets no ex-federal figure:
\* its DEPARTMENT TOTAL ex FEDERAL value is absent or NaN, not 0 and not the
\* negated federal amount.
C19_NoExFederalWithoutTotal ==
    ExFederalCalled =>
        \A dept \in DeptsOf(me_budget_clean_totals_df.df), y \in YearSet :
            LET t == Cell(me_budget_clean_totals_df.df, dept, DEPARTMENT_TOTAL, y)
                f == Cell(me_budget_clean_totals_df.df, dept, FEDERAL, y)
            IN  (IsNum(f) /\ ~IsNum(t)) =>
                    IsNaN(Cell(me_processed_df.df, dept, EX_FEDERAL, y))

\* A reports a total of 500 in the first year only and a federal amount of
\* 80 in the second year only: its ex-federal row is (500, NaN)
C19_Witness ==
    /\ pc = "processed"
    /\ Cell(me_budget_clean_totals_df.df, "A", DEPARTMENT_TOTAL, Years[2]) = NaN
    /\ Cell(me_budget_clean_totals_df.df, "A", FEDERAL, Years[2]) = Num(80)
    /\ <<"A", EX_FEDERAL>> \in KeysOf(me_processed_df.df)
    /\ Cell(me_processed_df.df, "A", EX_FEDERAL, Years[1]) = Num(500)
    /\ Cell(me_processed_df.df, "A", EX_FEDERAL, Years[2]) = NaN

\* C20: clean_total_rows returns its table (every department row and the
\* recomputed TOTAL rows) also when the as-reported table holds no row of
\* the grand-total department.
C20_NoSentinelIsNotAnError ==
    (pc # "clean_total_rows" /\ GRAND_TOTALS \notin DeptsOf(me_as_reported_df)) =>
        /\ CleanReturned
        /\ SelectSeq(me_budget_clean_totals_df.df, LAMBDA r : r.Department # TOTAL)
              = me_as_reported_df
        /\ \A fs \in FundsOf(me_as_reported_df), y \in YearSet :
              Cell(me_budget_clean_totals_df.df, TOTAL, fs, y)
                = FundingSourceSum(me_as_reported_df, fs, y)

(***************************************************************************)
(* Claims on the Standardizer (SpecStandardize)                            *)
(***************************************************************************)
\* the DEPARTMENT TOTAL amounts of a table summed over its departments
DepartmentTotalSum(df, y) ==
    ColSum(SelectSeq(df, LAMBDA r : r.FundingSource = DEPARTMENT_TOTAL), y)

\* C1: after standardize_budget the sum of the DEPARTMENT TOTAL amounts over
\* all standardized departments equals, for every jurisdiction and year, the
\* sum of the DEPARTMENT TOTAL amounts over all as-reported departments of
\* the input table.
C1_TotalsConserved ==
    pc = "standardized" =>
        \A y \in YearSet :
            DepartmentTotalSum(standardized_df, y) = DepartmentTotalSum(as_reported_df, y)

DirectRulesOf(dept) ==
    SelectSeq(state_rules(category_mapping_df, full_state_name),
              LAMBDA rule : rule.AsReported = dept)
SubRulesOf(dept) ==
    SelectSeq(state_rules(sub_category_map_df, full_state_name),
              LAMBDA rule : rule.AsReported = dept)

\* the amounts of a department that its sub-department rules claim
SubMappedAmount(dept, y) ==
    SumSkipNa([i \in 1..Len(SubRulesOf(dept)) |->
                  Cell(as_reported_df, dept, SubRulesOf(dept)[i].FundingSource, y)])

\* what the direct rule of a department passes on to the standardized
\* department: its DEPARTMENT TOTAL less its sub-mapped amounts
DirectContribution(dept, standardized, y) ==
    IF DirectRulesOf(dept) # <<>> /\ DirectRulesOf(dept)[1].Standardized = standardized
       /\ dept \in DeptsOf(as_reported_df)
    THEN Sub(Fillna0(Cell(as_reported_df, dept, DEPARTMENT_TOTAL, y)),
             SubMappedAmount(dept, y))
    ELSE Num(0)

\* what the sub-department rules pass on to the standardized department
SubContribution(standardized, y) ==
    LET rules == SelectSeq(state_rules(sub_category_map_df, full_state_name),
                           LAMBDA rule : rule.Standardized = standardized)
    IN  SumSkipNa([i \in 1..Len(rules) |->
                      Cell(as_reported_df, rules[i].AsReported,
                           rules[i].FundingSource, y)])

\* C2: for a department B with a direct rule B->X and sub-department rules
\* (B, F)->Y, the DEPARTMENT TOTAL of Y receives B's amount for F and the
\* DEPARTMENT TOTAL of X receives B's DEPARTMENT TOTAL minus the sum of B's
\* sub-mapped amounts, never B's full DEPARTMENT TOTAL: every standardized
\* DEPARTMENT TOTAL is the sum of these contributions.
C2_SubMappedSliceCountedOnce ==
    pc = "standardized" =>
        \A standardized \in StandardizedNames, y \in YearSet :
            Fillna0(Cell(standardized_df, standardized, DEPARTMENT_TOTAL, y))
              = Add(SumSkipNa([i \in 1..Len(StdDeptNames) |->
                                  DirectContribution(StdDeptNames[i], standardized, y)]),
                    SubContribution(standardized, y))

\* the double-count scenario: B/DEPARTMENT TOTAL = 500, B/GENERAL FUND = 80,
\* B -> X, (B, GENERAL FUND) -> Y gives Y = 80 and X = 420
C2_Witness ==
    /\ pc = "standardized"
    /\ DeptsOf(as_reported_df) = {"B"}
    /\ Cell(as_reported_df, "B", DEPARTMENT_TOTAL, "2018") = Num(500)
    /\ Cell(as_reported_df, "B", GENERAL_FUND, "2018") = Num(80)
    /\ DirectRulesOf("B") = <<DirectRule(full_state_name, "B", "X")>>
    /\ SubRulesOf("B") = <<SubRule(full_state_name, "B", GENERAL_FUND, "Y")>>
    /\ Cell(standardized_df, "Y", DEPARTMENT_TOTAL, "2018") = Num(80)
    /\ Cell(standardized_df, "X", DEPARTMENT_TOTAL, "2018") = Num(420)

\* the department names printed by the run, and the jurisdictions named by
\* the header lines
ReportedDepts == {stdout[i].text : i \in {j \in 1..Len(stdout) : stdout[j].line = "dept"}}
ReportedStates ==
    {stdout[i].text : i \in {j \in 1..Len(stdout) : stdout[j].line # "dept"}}

DirectPathDone == pc \in {"combine", "standardized"}

\* C7: the departments a standardization run reports as unmapped are exactly
\* the as-reported departments of the table that have neither a direct rule
\* nor a sub-department rule of the jurisdiction, and the report names the
\* jurisdiction.
C7_UnmappedExactlyThoseWithoutAnyRule ==
    DirectPathDone =>
        /\ ReportedDepts = {dept \in DeptsOf(as_reported_df) :
                               DirectRulesOf(dept) = <<>> /\ SubRulesOf(dept) = <<>>}
        /\ ReportedDepts # {} => ReportedStates = {full_state_name}

(***************************************************************************)
(* Claims on the Comparator (SpecCompare)                                  *)
(***************************************************************************)
\* the standardized departments that have a DEPARTMENT TOTAL row
TotalDepts(df) ==
    {df[i].Department : i \in {j \in 1..Len(df) : df[j].FundingSource = DEPARTMENT_TOTAL}}

ThroughTimeCells(row) ==
    {row.ME[f] : f \in DOMAIN row.ME} \cup {row.NH[f] : f \in DOMAIN row.NH}
    \cup {row.ME_vs_NH[f] : f \in DOMAIN row.ME_vs_NH}

\* C6: in the result of create_state_comparison_through_time every value
\* derived by a division by zero (a jurisdiction's percentage change when
\* its start-year level is 0, the cross-jurisdiction end-year percentage
\* when New Hampshire's end-year level is 0) is NaN; no cell is plus or
\* minus infinity.
C6_DivisionByZeroIsNaN ==
    comparison_through_time_df.err = "" =>
        \A i \in 1..Len(comparison_through_time_df.df) :
            LET row == comparison_through_time_df.df[i]
            IN  /\ \A c \in ThroughTimeCells(row) : ~IsInf(c)
                /\ row.ME.start_level = Num(0) => IsNaN(row.ME.pct_change)
                /\ row.NH.start_level = Num(0) => IsNaN(row.NH.pct_change)
                /\ row.NH.end_level = Num(0) => IsNaN(row.ME_vs_NH.end_pct_diff)

\* a start-year level of 0 with a positive end-year level, and an end-year
\* level of 0 in New Hampshire against a positive one in Maine
C6_Witness ==
    /\ comparison_through_time_df.err = ""
    /\ \E i \in 1..Len(comparison_through_time_df.df) :
          LET row == comparison_through_time_df.df[i]
          IN  /\ row.ME.start_level = Num(0)
              /\ IsNum(row.ME.end_level) /\ row.ME.end_level.n > 0
              /\ IsNaN(row.ME.pct_change)
              /\ row.NH.end_level = Num(0)
              /\ IsNaN(row.ME_vs_NH.end_pct_diff)

\* the years asked of the point-in-time comparison and of the comparison
\* through time
YearMissing(year) ==
    \/ year \notin Columns(me_standardized_df)
    \/ year \notin Columns(nh_standardized_df)

\* C11: when the requested year (the year of the point-in-time comparison,
\* the start or the end year of the comparison through time) is not a year
\* column of one of the two standardized tables, the comparator raises
\* KeyError and returns no records, zero-filled or other.
C11_MissingYearRaises ==
    /\ (comparison_df_current.err # "None" /\ YearMissing(selected_year_current))
          => (comparison_df_current.err = "KeyError" /\ comparison_df_current.df = <<>>)
    /\ (comparison_through_time_df.err # "None"
          /\ (YearMissing(selected_year_current) \/ YearMissing(selected_year_previous)))
          => (comparison_through_time_df.err = "KeyError"
              /\ comparison_through_time_df.df = <<>>)

\* Maine has X in 2025, New Hampshire's table has X but no 2025 column
C11_Witness ==
    /\ selected_year_current = "2025"
    /\ selected_year_previous = "2018"
    /\ "X" \in TotalDepts(me_standardized_df)
    /\ "X" \in TotalDepts(nh_standardized_df)
    /\ Columns(nh_standardized_df) = {"2018", "2026"}
    /\ comparison_df_current.err = "KeyError"
    /\ comparison_through_time_df.err = "KeyError"

ThroughTimeReturned == comparison_through_time_df.err = ""

\* the columns of one jurisdiction computed from the DEPARTMENT TOTAL
\* amounts end_amount and start_amount: a percentage change whose
\* denominator is zero is left to C6
LevelsOf(end_amount, start_amount) ==
    [end_level |-> end_amount,
     start_level |-> start_amount,
     change |-> Sub(end_amount, start_amount),
     pct_change |-> IF start_amount = Num(0) THEN NaN
                    ELSE Mul(Div(Sub(end_amount, start_amount), start_amount), Num(100))]

\* C12: for each jurisdiction and each standardized department with a
\* DEPARTMENT TOTAL row, the comparison through time reports the end-year
\* DEPARTMENT TOTAL amount, the start-year amount, the change end - start
\* and the percentage change (end - start) / start * 100.
C12_LevelsChangeAndPercentage ==
    ThroughTimeReturned =>
        \A i \in 1..Len(comparison_through_time_df.df) :
            LET row == comparison_through_time_df.df[i]
                dept == row.Department
            IN  /\ dept \in TotalDepts(me_standardized_df) =>
                      row.ME = LevelsOf(Cell(me_standardized_df, dept, DEPARTMENT_TOTAL,
                                             selected_year_current),
                                        Cell(me_standardized_df, dept, DEPARTMENT_TOTAL,
                                             selected_year_previous))
                /\ dept \in TotalDepts(nh_standardized_df) =>
                      row.NH = LevelsOf(Cell(nh_standardized_df, dept, DEPARTMENT_TOTAL,
                                             selected_year_current),
                                        Cell(nh_standardized_df, dept, DEPARTMENT_TOTAL,
                                             selected_year_previous))

\* C13: in every record of the comparison through time the end-year
\* differential is Maine's end level minus New Hampshire's, the start-year
\* differential is Maine's start level minus New Hampshire's, and the growth
\* in the gap is the end-year differential minus the start-year differential,
\* which is Maine's change minus New Hampshire's change.
C13_DifferentialsAndGrowthInGap ==
    ThroughTimeReturned =>
        \A i \in 1..Len(comparison_through_time_df.df) :
            LET row == comparison_through_time_df.df[i]
            IN  /\ row.ME_vs_NH.end_diff = Sub(row.ME.end_level, row.NH.end_level)
                /\ row.ME_vs_NH.start_diff = Sub(row.ME.start_level, row.NH.start_level)
                /\ row.ME_vs_NH.growth_in_diff
                      = Sub(row.ME_vs_NH.end_diff, row.ME_vs_NH.start_diff)
                /\ row.ME_vs_NH.growth_in_diff = Sub(row.ME.change, row.NH.change)

\* a department of both jurisdictions whose gap grew: the four levels are
\* numbers, the differentials differ between the two years
C13_Witness ==
    /\ ThroughTimeReturned
    /\ \E i \in 1..Len(comparison_through_time_df.df) :
          LET row == comparison_through_time_df.df[i]
          IN  /\ IsNum(row.ME.end_level) /\ IsNum(row.ME.start_level)
              /\ IsNum(row.NH.end_level) /\ IsNum(row.NH.start_level)
              /\ row.ME.change # row.NH.change
              /\ IsNum(row.ME_vs_NH.growth_in_diff)
              /\ row.ME_vs_NH.growth_in_diff # Num(0)
              /\ row.ME_vs_NH.end_diff # Num(0)

\* C14: no core stage scales or rounds: in the comparison through time the
\* levels are the DEPARTMENT TOTAL amounts of the standardized tables, the
\* changes and the differentials are exact differences of those amounts.
C14_AmountsUnscaled ==
    ThroughTimeReturned =>
        \A i \in 1..Len(comparison_through_time_df.df) :
            LET row == comparison_through_time_df.df[i]
                dept == row.Department
                me_end == Cell(me_standardized_df, dept, DEPARTMENT_TOTAL,
                               selected_year_current)
                me_start == Cell(me_standardized_df, dept, DEPARTMENT_TOTAL,
                                 selected_year_previous)
                nh_end == Cell(nh_standardized_df, dept, DEPARTMENT_TOTAL,
                               selected_year_current)
                nh_start == Cell(nh_standardized_df, dept, DEPARTMENT_TOTAL,
                                 selected_year_previous)
            IN  /\ row.ME.end_level = me_end /\ row.ME.start_level = me_start
                /\ row.NH.end_level = nh_end /\ row.NH.start_level = nh_start
                /\ row.ME.change = Sub(me_end, me_start)
                /\ row.NH.change = Sub(nh_end, nh_start)
                /\ row.ME_vs_NH.end_diff = Sub(me_end, nh_end)
                /\ row.ME_vs_NH.start_diff = Sub(me_start, nh_start)

(***************************************************************************)
(* Claims on the Economic Index Builder (SpecEcon)                         *)
(***************************************************************************)
InRange(name) == get_fred_series(fred.series[name], START_YEAR)

IndexReturned == economic_index_df.err = ""

\* C9: in the index table every macro series is divided by its own first
\* in-range observation: its index is 1 in the year of that observation and
\* value / first value in every year it is observed, whatever the first
\* year of the other series
C9_RebasedToOwnFirstObservation ==
    IndexReturned =>
        \A s \in 1..Len(SeriesNames) :
            LET in_range == InRange(SeriesNames[s])
                row == Loc(economic_index_df.df, SeriesNames[s])
            IN  in_range # <<>> =>
                    /\ row.vals[in_range[1].year] = Num(1)
                    /\ \A i \in 1..Len(in_range) :
                          row.vals[in_range[i].year] =
                              Div(in_range[i].value, in_range[1].value)

(***************************************************************************)
(* Claims on the pipeline of main() (Spec)                                 *)
(***************************************************************************)
RunEnded == pc \in {"raised", "views"}

FetchFailed == raw_economic_df.err = "Exception"

\* C10: a run whose economic-indicator fetch failed still runs the
\* comparison stage: when the run has ended, the comparison through time
\* has been computed from the standardized tables
C10_FetchFailureDoesNotAbort ==
    (RunEnded /\ FetchFailed) => comparison_through_time_df.err # "None"

(***************************************************************************)
(* Claims on the growth index with extension (SpecGrowth)                  *)
(***************************************************************************)
GrowthReturned == growth_index.err = ""

LatestYear == growth_series[Len(growth_series)].year

Observed(year) == year \in SeriesIndex(growth_series)

\* value(b) / value(a) of two observed years
ValueRatio(a, b) == Div(SeriesLoc(growth_series, b), SeriesLoc(growth_series, a))

\* the start year and the first year of the lookback window are observed
\* with a value other than 0
RatiosDefined ==
    /\ Observed(prior_year) /\ SeriesLoc(growth_series, prior_year) # Num(0)
    /\ Observed(LatestYear - lookback_years)
    /\ SeriesLoc(growth_series, LatestYear - lookback_years) # Num(0)

\* C15 (end year observed): the index is value(end) / value(start).
C15_ObservedEndYear ==
    (GrowthReturned /\ RatiosDefined /\ Observed(chart_year)) =>
        growth_index.df = Plain(ValueRatio(prior_year, chart_year))

\* C15 (end year after the latest observation): the index is
\* value(latest) / value(start) times g ^ (end - latest), g the average
\* annual growth factor of the lookback window ending at the latest
\* observation.
C15_ExtendedEndYear ==
    (GrowthReturned /\ RatiosDefined /\ chart_year > LatestYear) =>
        growth_index.df =
            Times(ValueRatio(prior_year, LatestYear),
                  GrowthPower(ValueRatio(LatestYear - lookback_years, LatestYear),
                              lookback_years, chart_year - LatestYear))

\* C15: calc_geo_growth_index_w_extension returns value(end) / value(start)
\* when the end year is observed and extrapolates only when the end year is
\* later than the latest observation, then by g ^ (end - latest): for an
\* end year that is not later no power of g enters the index.
C15_ExtrapolatesOnlyPastLatest ==
    /\ C15_ObservedEndYear
    /\ C15_ExtendedEndYear
    /\ (GrowthReturned /\ chart_year <= LatestYear) => growth_index.df.exp = 0

CompositeRow == Loc(economic_index_df.df, CPI_AND_POPULATION)

FirstColumn == economic_index_df.df.columns[1]

\* C16: the row 'CPI & Population Growth' of the index table is, in every
\* year, the product of the index of CPI and the index of Maine Population
\* of that year; it is 1 in the start year, the first column of the table;
\* the rows of the four base series are the re-based series, as before the
\* composite was added.
C16_CompositeIsProduct ==
    IndexReturned =>
        /\ Cardinality({i \in 1..Len(economic_index_df.df.rows) :
                           economic_index_df.df.rows[i].name = CPI_AND_POPULATION}) = 1
        /\ \A y \in DOMAIN CompositeRow.vals :
              CompositeRow.vals[y] = Mul(Loc(economic_index_df.df, CPI).vals[y],
                                         Loc(economic_index_df.df, MAINE_POPULATION).vals[y])
        /\ CompositeRow.vals[FirstColumn] = Num(1)
        /\ \A s \in 1..Len(SeriesNames) :
              Loc(economic_index_df.df, SeriesNames[s])
                = Loc(div_by_first_column(raw_economic_df.df), SeriesNames[s])

(***************************************************************************)
(* Claims on the order and the parts of standardize_budget                 *)
(* (SpecStandardize)                                                       *)
(***************************************************************************)
BeforeDirectPath ==
    pc \in {"sub_departments", "identify_double_counted", "subtract", "direct_mapping"}

\* C17: the direct path has not run while the sub-department path and the
\* subtraction are pending; when it runs, the sub-department table and the
\* remainder are computed, and its result is the direct mapping of the
\* remainder after subtraction, not of the raw table.
C17_DirectPathRunsOnRemainder ==
    /\ BeforeDirectPath =>
          (standardized_df_from_direct_mapping = <<>> /\ stdout = <<>>)
    /\ pc = "direct_mapping" =>
          /\ standardized_df_from_sub_departments =
                standardize_budget_from_sub_departments(
                    as_reported_df, sub_category_map_df, full_state_name)
          /\ remaining_funds_df =
                subtract_fill0(as_reported_df,
                               identify_double_counted_departments(
                                   as_reported_df, sub_category_map_df, full_state_name))
    /\ DirectPathDone =>
          standardized_df_from_direct_mapping =
              standardize_budget_from_direct_mapping(
                  remaining_funds_df, category_mapping_df, full_state_name)

\* a run in which the subtraction changed the table and the direct path
\* gave another result than it would have given on the raw table
C17_Witness ==
    /\ pc = "standardized"
    /\ remaining_funds_df # as_reported_df
    /\ standardized_df_from_direct_mapping # <<>>
    /\ standardized_df_from_direct_mapping #
          standardize_budget_from_direct_mapping(
              as_reported_df, category_mapping_df, full_state_name)

\* the line items of the table that a sub-department rule of the
\* jurisdiction names
MatchedRows ==
    SelectSeq(as_reported_df,
              LAMBDA r : \E i \in 1..Len(sub_category_map_df) :
                            /\ sub_category_map_df[i].State = full_state_name
                            /\ sub_category_map_df[i].AsReported = r.Department
                            /\ sub_category_map_df[i].FundingSource = r.FundingSource)

SyntheticTotal(dept) ==
    Row(dept, DEPARTMENT_TOTAL,
        [y \in YearSet |->
            SumSkipNa([i \in 1..Len(SelectSeq(MatchedRows, LAMBDA r : r.Department = dept)) |->
                          SelectSeq(MatchedRows, LAMBDA r : r.Department = dept)[i].vals[y]])])

CountIn(df, row) == Cardinality({i \in 1..Len(df) : df[i] = row})

AlreadyMappedComputed ==
    pc \in {"subtract", "direct_mapping", "combine", "standardized"}

\* C18: identify_double_counted_departments returns exactly the line items
\* matched by a sub-department rule of the jurisdiction, with their amounts,
\* and one synthetic (department, DEPARTMENT TOTAL) row per department with
\* a matched row, holding the sum of that department's matched rows; the
\* other jurisdiction's rules and unmatched rows add nothing.
C18_AlreadyMappedRows ==
    AlreadyMappedComputed =>
        /\ Len(totals_already_mapped)
              = Len(MatchedRows) + Cardinality(DeptsOf(MatchedRows))
        /\ \A i \in 1..Len(totals_already_mapped) :
              CountIn(totals_already_mapped, totals_already_mapped[i])
                = CountIn(MatchedRows, totals_already_mapped[i])
                  + (IF \E dept \in DeptsOf(MatchedRows) :
                            totals_already_mapped[i] = SyntheticTotal(dept)
                     THEN 1 ELSE 0)

\* A's federal and general fund rows are both claimed: the synthetic total
\* of A is 20 + 80 and 30 + 20, and A's own DEPARTMENT TOTAL row is not
\* returned
C18_Witness ==
    /\ AlreadyMappedComputed
    /\ Len(MatchedRows) = 2
    /\ DeptsOf(MatchedRows) = {"A"}
    /\ Len(as_reported_df) > 3
    /\ CountIn(totals_already_mapped,
               Row("A", DEPARTMENT_TOTAL, V(Num(100), Num(50)))) = 1
    /\ CountIn(totals_already_mapped,
               Row("A", DEPARTMENT_TOTAL, V(Num(120), NaN))) = 0

(***************************************************************************)
(* Further claims on the Standardizer (SpecStandardize)                    *)
(***************************************************************************)
\* the as-reported table without the rows of the departments reported as
\* unmapped
WithoutUnmapped ==
    SelectSeq(as_reported_df, LAMBDA r : r.Department \notin ReportedDepts)

\* C21: the outcome of standardize_budget (the table it returns, or an
\* error) tells a run with unmapped departments from a run without: when
\* this run had unmapped departments, the run on the same table without
\* those departments' rows, which has none, ends with another outcome.
C21_UnmappedObservable ==
    (/\ pc = "standardized"
     /\ ReportedDepts # {}
     /\ WithoutUnmapped # <<>>
     /\ standardize_budget_stdout(WithoutUnmapped, category_mapping_df,
                                  sub_category_map_df, full_state_name) = <<>>)
        => standardized_df # standardize_budget(WithoutUnmapped, category_mapping_df,
                                                sub_category_map_df, full_state_name)

\* the rules of the jurisdiction as the two mapping files spell them
DirectFileRules == state_rules(department_mapping_csv, full_state_name)
SubFileRules == state_rules(sub_department_mapping_csv, full_state_name)

\* the rows of the remainder whose department a direct rule of the file
\* maps to a name that is the standardized name up to letter case, with the
\* given funding source
DirectRowsFor(standardized, fs) ==
    SelectSeq(remaining_funds_df,
              LAMBDA r : /\ r.FundingSource = fs
                         /\ \E i \in 1..Len(DirectFileRules) :
                               /\ DirectFileRules[i].AsReported = r.Department
                               /\ Upper(DirectFileRules[i].Standardized) = standardized)

\* the raw rows that a sub-department rule of the file maps to a name that
\* is the standardized name up to letter case
SubRowsFor(standardized) ==
    SelectSeq(as_reported_df,
              LAMBDA r : \E i \in 1..Len(SubFileRules) :
                            /\ SubFileRules[i].AsReported = r.Department
                            /\ SubFileRules[i].FundingSource = r.FundingSource
                            /\ Upper(SubFileRules[i].Standardized) = standardized)

\* C22: the standardized table has exactly one row per (standardized
\* department, funding source); its departments are the upper-cased names
\* of the mapping files; the row of a key is the sum of the direct-path rows
\* of every as-reported department mapped to that name and, for DEPARTMENT
\* TOTAL, of the sub-department-path rows mapped to it, names compared
\* without regard to letter case.
C22_OneRowPerStandardizedKey ==
    pc = "standardized" =>
        /\ UniqueKeys(standardized_df)
        /\ \A dept \in DeptsOf(standardized_df) : Upper(dept) = dept
        /\ \A standardized \in StandardizedNames \cup {"x", "y"}, fs \in FundsOf(remaining_funds_df) \cup {DEPARTMENT_TOTAL} :
              LET direct == DirectRowsFor(standardized, fs)
                  sub == IF fs = DEPARTMENT_TOTAL THEN SubRowsFor(standardized) ELSE <<>>
              IN  /\ <<standardized, fs>> \in KeysOf(standardized_df)
                        <=> (direct # <<>> \/ sub # <<>>)
                  /\ (direct # <<>> \/ sub # <<>>) =>
                        \A y \in YearSet :
                            Cell(standardized_df, standardized, fs, y)
                                = Add(ColSum(direct, y), ColSum(sub, y))

\* A maps to "X" in the direct file, B to "y", and B's general fund to "x"
\* in the sub-department file: the one department X holds A's total and B's
\* general fund, 500 + 80 and 130, and Y holds the rest of B
C22_Witness ==
    /\ pc = "standardized"
    /\ \E i \in 1..Len(SubFileRules) : SubFileRules[i] = SubRule(full_state_name, "B", GENERAL_FUND, "x")
    /\ \E i \in 1..Len(DirectFileRules) : DirectFileRules[i] = DirectRule(full_state_name, "A", "X")
    /\ \E i \in 1..Len(DirectFileRules) : DirectFileRules[i] = DirectRule(full_state_name, "B", "y")
    /\ Len(SubFileRules) = 1
    /\ DeptsOf(standardized_df) = {"X", "Y"}
    /\ Cell(standardized_df, "X", DEPARTMENT_TOTAL, "2018") = Num(580)
    /\ Cell(standardized_df, "X", DEPARTMENT_TOTAL, "2025") = Num(130)
    /\ Cell(standardized_df, "Y", DEPARTMENT_TOTAL, "2018") = Num(420)

\* C23: every row of the sub-department path has the funding source
\* DEPARTMENT TOTAL, whatever the funding source of the matched line items,
\* and holds their sum; every row of the direct path has the funding source
\* of the line items of the remainder it sums.
C23_FundingSourceOfThePaths ==
    DirectPathDone =>
        /\ FundsOf(standardized_df_from_sub_departments) \subseteq {DEPARTMENT_TOTAL}
        /\ \A standardized \in StandardizedNames, y \in YearSet :
              /\ <<standardized, DEPARTMENT_TOTAL>> \in KeysOf(standardized_df_from_sub_departments)
                    <=> SubRowsFor(standardized) # <<>>
              /\ SubRowsFor(standardized) # <<>> =>
                    Cell(standardized_df_from_sub_departments, standardized, DEPARTMENT_TOTAL, y)
                        = ColSum(SubRowsFor(standardized), y)
        /\ \A standardized \in StandardizedNames,
              fs \in FundsOf(remaining_funds_df) \cup FundsOf(standardized_df_from_direct_mapping),
              y \in YearSet :
              /\ <<standardized, fs>> \in KeysOf(standardized_df_from_direct_mapping)
                    <=> DirectRowsFor(standardized, fs) # <<>>
              /\ DirectRowsFor(standardized, fs) # <<>> =>
                    Cell(standardized_df_from_direct_mapping, standardized, fs, y)
                        = ColSum(DirectRowsFor(standardized, fs), y)

\* B's general fund of 80 goes to X under DEPARTMENT TOTAL on the
\* sub-department path, while the direct path keeps B's federal and general
\* fund rows as rows of Y
C23_Witness ==
    /\ DirectPathDone
    /\ SubFileRules = <<SubRule(full_state_name, "B", GENERAL_FUND, "x")>>
    /\ KeysOf(standardized_df_from_sub_departments) = {<<"X", DEPARTMENT_TOTAL>>}
    /\ Cell(standardized_df_from_sub_departments, "X", DEPARTMENT_TOTAL, "2018") = Num(80)
    /\ Cell(as_reported_df, "B", GENERAL_FUND, "2018") = Num(80)
    /\ {<<"Y", FEDERAL>>, <<"Y", GENERAL_FUND>>} \subseteq KeysOf(standardized_df_from_direct_mapping)
    /\ Cell(standardized_df_from_direct_mapping, "Y", FEDERAL, "2018") = Num(20)

(***************************************************************************)
(* Further claims on the pipeline of main() (Spec)                         *)
(***************************************************************************)
\* C24: no stage changes a table it receives: in every step the raw tables
\* and the mapping tables stay as they are, and the processed table and the
\* standardized tables stay as they are once they have been produced and
\* handed to the next stage.
C24_StagesLeaveInputsUnchanged ==
    [][/\ me_as_reported_df' = me_as_reported_df
       /\ nh_as_reported_df' = nh_as_reported_df
       /\ as_reported_df' = as_reported_df
       /\ category_mapping_df' = category_mapping_df
       /\ sub_category_map_df' = sub_category_map_df
       /\ me_processed_df # None => me_processed_df' = me_processed_df
       /\ me_standardized_df # <<>> => me_standardized_df' = me_standardized_df
       /\ nh_standardized_df # <<>> => nh_standardized_df' = nh_standardized_df]_vars

\* a run in which every stage returned, on tables with amounts that the
\* scaling to millions changes
C24_Witness ==
    /\ pc = "views"
    /\ me_processed_df.err = ""
    /\ me_standardized_df # <<>>
    /\ nh_standardized_df # <<>>
    /\ scale_to_millions(me_standardized_df) # me_standardized_df
    /\ comparison_through_time_df.err = ""

(***************************************************************************)
(* SpecRuns: main() run again and again in one Streamlit server process,   *)
(* the loaders decorated with st.cache_data, the sources changing between  *)
(* two runs                                                                *)
(***************************************************************************)
\* number of runs of main() in the process
MaxRuns == 2

\* load_nh_budget_as_reported: the appropriations of the csv files under
\* the funding source DEPARTMENT TOTAL
load_nh_budget_as_reported(csv_rows) ==
    [i \in 1..Len(csv_rows) |->
        Row(csv_rows[i].Department, DEPARTMENT_TOTAL, csv_rows[i].Appropriation)]

\* a call of a function decorated with st.cache_data, its arguments the
\* same in every run (a path, the list of years, the start date; the
\* client parameter _fred_client is not hashed): the stored value when
\* there is one, the value computed now otherwise
cached(entry, computed) == IF entry # <<>> THEN entry[1] ELSE computed

\* the New Hampshire csv files on disk
RunNhFiles ==
    { <<[Department |-> "A", Appropriation |-> V(Num(500), Num(130))]>>,
      <<[Department |-> "A", Appropriation |-> V(Num(500), Num(130))],
        [Department |-> "B", Appropriation |-> V(Num(120), NaN)]>>,
      <<[Department |-> "A", Appropriation |-> V(Num(120), NaN)],
        [Department |-> "B", Appropriation |-> V(Num(500), Num(130))]>> }

\* department_mapping.csv on disk: A maps to X, B to X, to y or to nothing
RunMappingFiles ==
    { file \in DirectMappingFiles(NEW_HAMPSHIRE) :
        \E i \in 1..Len(file) :
            file[i] = DirectRule(NEW_HAMPSHIRE, "A", "X") }

\* the sub-department mapping file on disk, without a New Hampshire rule
RunSubMappingFile ==
    <<SubRule(MAINE, "A", GENERAL_FUND, "Z"), SubRule(MAINE, "B", DEPARTMENT_TOTAL, "Z")>>

\* the FRED service: every series from the start year on, the population
\* series with or without the last year
RunFredClients ==
    { client \in FredClients :
        /\ client.available
        /\ client.series[MAINE_GDP][1].year = FirstNativeYear
        /\ \A name \in DOMAIN client.series :
              name # MAINE_GDP => client.series[name][1].year = START_YEAR }

InitRuns ==
    /\ pc = "load_nh_budget_as_reported"
    /\ run = 1
    /\ cache_data = EmptyCache
    /\ nh_budget_csv \in RunNhFiles
    /\ department_mapping_csv \in RunMappingFiles
    /\ sub_department_mapping_csv = RunSubMappingFile
    /\ fred \in RunFredClients
    /\ ReconcileIdle
    /\ CompareIdle
    /\ GrowthIdle
    /\ nh_as_reported_df = <<>>
    /\ raw_economic_df = None
    /\ economic_index_df = None
    /\ full_state_name = ""
    /\ as_reported_df = <<>>
    /\ category_mapping_df = <<>>
    /\ sub_category_map_df = <<>>
    /\ standardized_df_from_sub_departments = <<>>
    /\ totals_already_mapped = <<>>
    /\ remaining_funds_df = <<>>
    /\ standardized_df_from_direct_mapping = <<>>
    /\ standardized_df = <<>>
    /\ stdout = <<>>

\* main.py:66
LoadNhBudgetAsReported ==
    /\ pc = "load_nh_budget_as_reported"
    /\ nh_as_reported_df' = cached(cache_data.load_nh_budget_as_reported,
                                   load_nh_budget_as_reported(nh_budget_csv))
    /\ cache_data' = [cache_data EXCEPT !.load_nh_budget_as_reported = <<nh_as_reported_df'>>]
    /\ pc' = "load_department_mapping"
    /\ UNCHANGED <<reconcile_vars, standardize_vars, compare_vars, econ_vars, growth_vars,
                   nh_budget_csv, run>>

\* main.py:71-72
LoadDepartmentMappings ==
    /\ pc = "load_department_mapping"
    /\ category_mapping_df' = cached(cache_data.load_department_mapping,
                                     load_department_mapping(department_mapping_csv))
    /\ sub_category_map_df' = cached(cache_data.load_sub_department_mapping,
                                     load_department_mapping(sub_department_mapping_csv))
    /\ cache_data' = [cache_data EXCEPT
                         !.load_department_mapping = <<category_mapping_df'>>,
                         !.load_sub_department_mapping = <<sub_category_map_df'>>]
    /\ pc' = "standardize_new_hampshire"
    /\ UNCHANGED <<reconcile_vars, full_state_name, as_reported_df, department_mapping_csv,
                   sub_department_mapping_csv, standardized_df_from_sub_departments,
                   totals_already_mapped, remaining_funds_df,
                   standardized_df_from_direct_mapping, standardized_df, stdout,
                   compare_vars, econ_vars, nh_as_reported_df, growth_vars,
                   nh_budget_csv, run>>

\* main.py:82: an exception is not stored in the cache
GetEconomicIndicatorsCached ==
    /\ pc = "get_economic_indicators_df"
    /\ raw_economic_df' = cached(cache_data.get_economic_indicators_df,
                                 get_economic_indicators_df(fred, START_YEAR))
    /\ cache_data' = IF raw_economic_df'.err # "" THEN cache_data
                     ELSE [cache_data EXCEPT !.get_economic_indicators_df = <<raw_economic_df'>>]
    /\ pc' = IF raw_economic_df'.err # "" THEN "raised" ELSE "ran"
    /\ UNCHANGED <<reconcile_vars, standardize_vars, compare_vars, fred, economic_index_df,
                   nh_as_reported_df, growth_vars, nh_budget_csv, run>>

\* between two runs one of the sources changes, or none; the entry of
\* get_economic_indicators_df expires when its ttl of 24 hours has passed
Rerun ==
    /\ pc \in {"ran", "raised"}
    /\ run < MaxRuns
    /\ run' = run + 1
    /\ pc' = "load_nh_budget_as_reported"
    /\ \/ UNCHANGED <<nh_budget_csv, department_mapping_csv, fred>>
       \/ nh_budget_csv' \in RunNhFiles /\ UNCHANGED <<department_mapping_csv, fred>>
       \/ department_mapping_csv' \in RunMappingFiles /\ UNCHANGED <<nh_budget_csv, fred>>
       \/ fred' \in RunFredClients /\ UNCHANGED <<nh_budget_csv, department_mapping_csv>>
    /\ \E ttl_passed \in BOOLEAN :
          cache_data' = IF ttl_passed
                        THEN [cache_data EXCEPT !.get_economic_indicators_df = <<>>]
                        ELSE cache_data
    /\ UNCHANGED <<reconcile_vars, full_state_name, as_reported_df, category_mapping_df,
                   sub_category_map_df, sub_department_mapping_csv,
                   standardized_df_from_sub_departments, totals_already_mapped,
                   remaining_funds_df, standardized_df_from_direct_mapping,
                   standardized_df, stdout, compare_vars, raw_economic_df,
                   economic_index_df, nh_as_reported_df, growth_vars>>

NextRuns ==
    \/ LoadNhBudgetAsReported
    \/ LoadDepartmentMappings
    \/ StandardizeNewHampshire
    \/ GetEconomicIndicatorsCached
    \/ Rerun

SpecRuns == InitRuns /\ [][NextRuns]_vars

(***************************************************************************)
(* Claims on repeated runs (SpecRuns)                                      *)
(***************************************************************************)
\* C25: no state survives from one run to the next: a run starts without
\* anything stored by an earlier run, and when it has ended the tables it
\* loaded and the table it computed are those of the sources as they are
\* now (the csv files, the mapping files and the FRED series).
C25_RunReflectsCurrentSources ==
    /\ pc = "load_nh_budget_as_reported" => cache_data = EmptyCache
    /\ pc = "ran" =>
          /\ nh_as_reported_df = load_nh_budget_as_reported(nh_budget_csv)
          /\ category_mapping_df = load_department_mapping(department_mapping_csv)
          /\ sub_category_map_df = load_department_mapping(sub_department_mapping_csv)
          /\ nh_standardized_df =
                standardize_budget(load_nh_budget_as_reported(nh_budget_csv),
                                   load_department_mapping(department_mapping_csv),
                                   load_department_mapping(sub_department_mapping_csv),
                                   NEW_HAMPSHIRE)
          /\ raw_economic_df = get_economic_indicators_df(fred, START_YEAR)

(***************************************************************************)
(* Further claims on the pipeline of main() (Spec)                         *)
(***************************************************************************)
\* (department, funding source) of the first row before that of the second
\* in the lexicographic order of the labels
KeyBefore(r, q) ==
    \/ Rank(DeptOrder, r.Department) < Rank(DeptOrder, q.Department)
    \/ /\ r.Department = q.Department
       /\ Rank(FSOrder, r.FundingSource) < Rank(FSOrder, q.FundingSource)

\* C26: the rows of the reconciler's table are in lexicographic order of
\* (department, funding source); the rows of the comparison through time
\* are in the order of Maine's end-year level, largest first, the
\* departments without a Maine level after all others.
C26_PresentationOrder ==
    /\ me_processed_df.err = "" =>
          \A i, j \in 1..Len(me_processed_df.df) :
              i < j => KeyBefore(me_processed_df.df[i], me_processed_df.df[j])
    /\ ThroughTimeReturned =>
          \A i, j \in 1..Len(comparison_through_time_df.df) :
              LET upper == comparison_through_time_df.df[i].ME.end_level
                  lower == comparison_through_time_df.df[j].ME.end_level
              IN  i < j => /\ IsNaN(upper) => IsNaN(lower)
                           /\ (IsNum(upper) /\ IsNum(lower)) => ~Less(upper, lower)

\* the reconciler's table holds rows of several departments and funding
\* sources, and the comparison lists Y with a Maine level of 4 before X
\* with a Maine level of 0
C26_Witness ==
    /\ pc = "views"
    /\ Len(me_processed_df.df) > 6
    /\ Len(comparison_through_time_df.df) >= 2
    /\ comparison_through_time_df.df[1].Department = "Y"
    /\ comparison_through_time_df.df[1].ME.end_level = Num(4)
    /\ comparison_through_time_df.df[2].Department = "X"
    /\ comparison_through_time_df.df[2].ME.end_level = Num(0)

(***************************************************************************)
(* Further claims on the Comparator (SpecCompare)                          *)
(***************************************************************************)
BothViewsReturned ==
    pc = "compared" /\ ThroughTimeReturned /\ comparison_df_current.err = ""

\* an amount of the point-in-time view in the unit of the through-time view
InMillions(amount) == Round0(Div(amount, Num(DEPARTMENT_SCALE)))

\* C27: the two views of the end year agree: they list the same
\* departments, and the end-year level of a department and jurisdiction in
\* the comparison through time is the amount of the point-in-time
\* comparison, in millions; a department absent from a jurisdiction's table
\* has level 0 there in both views.
C27_ViewsAgree ==
    BothViewsReturned =>
        LET through_time == comparison_through_time_df.df
            current == comparison_df_current.df
        IN  /\ {through_time[i].Department : i \in 1..Len(through_time)}
                  = {current[j].Department : j \in 1..Len(current)}
            /\ \A i \in 1..Len(through_time), j \in 1..Len(current) :
                  through_time[i].Department = current[j].Department =>
                      /\ through_time[i].ME.end_level = InMillions(current[j].ME)
                      /\ through_time[i].NH.end_level = InMillions(current[j].NH)

(***************************************************************************)
(* Further claims on the pipeline of main() (Spec)                         *)
(***************************************************************************)
MaineStandardized ==
    pc \in {"standardize_new_hampshire", "get_economic_indicators_df",
            "produce_economic_index_df", "indexed", "views"}

\* C28: in the standardized Maine table DEPARTMENT TOTAL ex FEDERAL is, for
\* every standardized department and year, DEPARTMENT TOTAL minus FEDERAL
\* EXPENDITURES FUND, or DEPARTMENT TOTAL where the department has no
\* federal amount, whether or not a sub-department rule moved a slice out
\* of or into the department; it is not above DEPARTMENT TOTAL when no
\* amount is negative.
C28_ExFederalConsistentAfterStandardization ==
    MaineStandardized =>
        \A dept \in DeptsOf(me_standardized_df), y \in YearSet :
            LET t == Cell(me_standardized_df, dept, DEPARTMENT_TOTAL, y)
                f == Cell(me_standardized_df, dept, FEDERAL, y)
                x == Cell(me_standardized_df, dept, EX_FEDERAL, y)
            IN  /\ x = (IF IsNaN(f) THEN t ELSE Sub(t, f))
                /\ (\A i \in 1..Len(me_as_reported_df) :
                        ~Less(me_as_reported_df[i].vals[y], Num(0)))
                      => ~Less(t, x)

(***************************************************************************)
(* Further claims on the Total Reconciler (SpecReconcile)                  *)
(***************************************************************************)
\* C29: after process_me_budget the DEPARTMENT TOTAL ex FEDERAL amount of
\* the TOTAL department is, in every year, the sum of the DEPARTMENT TOTAL
\* ex FEDERAL amounts of the other departments, absent amounts counting as
\* zero.
C29_TotalExFederalIsSumOfDepartments ==
    pc = "processed" =>
        \A y \in YearSet :
            Cell(me_processed_df.df, TOTAL, EX_FEDERAL, y)
                = FundingSourceSum(me_processed_df.df, EX_FEDERAL, y)

(***************************************************************************)
(* Further claims on the Double-Count Resolver (SpecStandardize)           *)
(***************************************************************************)
\* C30: for a raw table with one row per (department, funding source) the
\* table returned by identify_double_counted_departments has at most one
\* row per (department, funding source), whatever the rules, a rule on the
\* funding source DEPARTMENT TOTAL included.
C30_AlreadyMappedKeysUnique ==
    (AlreadyMappedComputed /\ UniqueKeys(as_reported_df))
        => UniqueKeys(totals_already_mapped)

====
